---- MODULE Spec2Model ----
(***************************************************************************)
(* Verification model of the book-club ETL (edwardbensa/storiedbc-db).     *)
(*                                                                         *)
(* The parts of the program are modelled each with its own specification   *)
(* over the same variables:                                                *)
(*   SpecEtl            - the orchestrator src/etl.py (run_script, main)   *)
(*   SpecArchive        - utils/ops_mongo.py archive_delete, step by step  *)
(*   SpecDeltas         - utils/parsers.py hash_doc, add_hashes,           *)
(*                        find_deltas                                      *)
(*   SpecRetry          - utils/connectors.py retry                        *)
(*   SpecSyncState      - load_sync_state / update_sync_state in the runs  *)
(*                        of etl/load_mongo.py and etl/load_aura.py        *)
(*   SpecSyncDeletions  - utils/ops_mongo.py sync_deletions                *)
(*   SpecAggregate      - utils/transform_for_aura.py process_ur           *)
(*   SpecRelationships  - utils/ops_aura.py create_relationships           *)
(*   SpecUserReads      - utils/ops_aura.py user_reads_relationships       *)
(*   SpecGraphDeletions - utils/ops_aura.py sync_deletions                 *)
(*   SpecAverages       - utils/transform_for_aura.py process_ur averages  *)
(*   SpecSubdocuments   - utils/parsers.py make_subdocuments               *)
(*   SpecTransform      - utils/transform_for_main.py transform_collection *)
(*                        and etl/load_mongo.py upsert_collection          *)
(*   SpecUnit           - the decorated units sync_sheet and               *)
(*                        upsert_collection under connectors.py retry      *)
(*   SpecResync         - etl/extract_gsheet.py sync_sheet, run after run  *)
(*   SpecGroup          - etl/extract_gsheet.py sync_group and its workers *)
(*   SpecBookAwards     - etl/load_aura.py load_relationships and          *)
(*                        utils/ops_aura.py book_awards_relationships      *)
(*   SpecPromoted       - utils/transform_for_main.py transform_formats    *)
(*                        and the replay of deletions into the main store  *)
(*                                                                         *)
(* A document is a Python dict: an ORDERED sequence of <<key, value>>      *)
(* pairs with pairwise distinct keys.  All keys and values are strings.    *)
(***************************************************************************)
EXTENDS Integers, Sequences, FiniteSets, Bags, TLC

VARIABLES
    \* ---- orchestrator (etl.py) ----
    etl_pc,         \* position of main(): "loop" | "running" | "check" | "exited" | "completed"
    script_i,       \* index into scripts of the script of the current iteration
    started,        \* history: the script paths handed to run_script, in order
    exit_codes,     \* history: the value run_script returned for each of them
    launch_failed,  \* history: whether subprocess.run raised for each of them
    sys_exit,       \* <<status>> once the orchestrator process has exited, <<>> while it runs
    \* ---- archive_delete (ops_mongo.py) ----
    source,         \* db[collection_name]: the set of documents of the source collection
    deletions,      \* db["deletions"]: the sequence of tombstones, in insertion order
    ad_pc,          \* archive_delete is at: "idle" | "find" | "insert" | "delete" | "returned"
    ad_query,       \* the _id of the filter query of the running call
    ad_doc,         \* local doc (after doc.pop("_id")), <<>> before find_one
    ad_original_id, \* local original_id
    ad_result,      \* the dict archive_delete returned
    ad_faults,      \* history: the store calls that raised during the running call
    ad_calls,       \* number of archive_delete calls made so far
    \* ---- add_hashes / find_deltas (parsers.py) ----
    fd_pc,          \* "input" | "hashed" | "done"
    id_fields,      \* the identity field list handed to add_hashes
    sheet,          \* the records handed to add_hashes (rows of the sheet)
    old_documents,  \* the stored snapshot handed to find_deltas
    new_documents,  \* the new snapshot handed to find_deltas (output of add_hashes)
    to_upsert,      \* first component of find_deltas' result
    diff,           \* second component of find_deltas' result
    \* ---- retry decorator (connectors.py) ----
    rt_pc,          \* wrapper is at: "loop" (about to call func) | "returned" | "raised"
    rt_max_attempts, \* parameter max_attempts
    rt_backoff,     \* parameter backoff
    rt_attempt,     \* local attempt
    rt_retry_count, \* local retry_count
    rt_outcomes,    \* history: what each invocation of func did, in order
    rt_waits,       \* history: the time.sleep calls, with the number of invocations before each
    \* ---- sync state (ops_mongo.py, load_mongo.py, load_aura.py) ----
    ss_states,      \* etl_metadata.sync_states: pipeline key -> last_sync_time (DefaultSyncTime: no document)
    ss_clock,       \* the wall clock
    ss_runs,        \* the pipeline runs started so far, each a record of its fields and position
    ss_writes,      \* history: the update_sync_state calls, in order
    \* ---- sync_deletions (ops_mongo.py); the target store is source / deletions above ----
    sd_pc,          \* sync_deletions is at: "fetch" | "loop" | "returned"
    sd_staging,     \* staging_db["deletions"]: the tombstones of the source store
    sd_since,       \* parameter since
    sd_fetched,     \* local deletions: the tombstones the query returned
    sd_i,           \* index into sd_fetched of the tombstone of the current iteration
    sd_synced,      \* local synced_count
    sd_attempted,   \* history: the indexes into sd_fetched for which archive_delete was called
    sd_result,      \* the dict sync_deletions returned
    \* ---- user_reads aggregation (transform_main2aura.py, transform_for_aura.py) ----
    ur_pc,          \* the extraction is at: "store" (before the run) | "done" | "exit10"
    ur_main,        \* main store, collection user_reads: the entries, in store order
    ur_lst,         \* last_sync_time of auradb_sync, read at the start of the run
    ur_fetched,     \* results["user_reads"] as fetched: the input of process_ur
    ur_agg,         \* results["user_reads"] after transform_collections: the aggregates
    \* ---- graph store (ops_aura.py) ----
    g_nodes,        \* the nodes of the graph: records of label, id (_id), name and fk (the foreign-key property)
    g_edges,        \* the relationships: a bag of <<source id, type, target id>>
    g_last,         \* the graph operation that ran last and its arguments
    g_since,        \* parameter since of sync_deletions
    \* ---- averages of process_ur (transform_for_aura.py) ----
    av_entries,     \* the entries of one (user, version) pair, in input order
    av_result,      \* the averages process_ur computed for the pair, <<>> before the call
    \* ---- make_subdocuments (parsers.py) ----
    ms_string,      \* parameter string, a sequence of characters
    ms_field_key,   \* parameter field_key
    ms_result,      \* <<>> before the call, then what the call did: raised, the list returned, the tokens warned about
    \* ---- staging -> main transform and load (transform_for_main.py, load_mongo.py) ----
    tm_pc,          \* the run is at: "stage" (delta file being written) | "transformed" | "loaded"
    tm_raw,         \* STAGING_COLL_DIR/<collection>.json: the raw records of the run, in file order
    tm_output,      \* MAIN_COLL_DIR/<collection>.json: <<>> while the file does not exist, else <<its records>>
    tm_main,        \* the collection of the main store: a set of documents
    tm_errors,      \* history: the errors transform_collection logged
    tm_run,         \* the number of the run
    \* ---- a retry-decorated unit: sync_sheet (extract_gsheet.py), upsert_collection (load_mongo.py) ----
    sh_unit,        \* the decorated method: "sync_sheet" | "upsert_collection"
    sh_pc,          \* the call is at: "call" | a step of the method | "except" | "finally" | "wrapper" | "returned" | "raised"
    sh_attempt,     \* local attempt of the retry wrapper
    sh_invocations, \* history: for each call, the number of times the wrapper invoked the method
    sh_success,     \* local success
    sh_exc,         \* <<>>, or <<the exception being handled or leaving the method>>
    sh_faults,      \* history: the faults raised inside the method, each with its invocation and step
    sh_logs,        \* etl_metadata.logs: the type and sheet of the entries written, in order
    sh_log_faults,  \* history: the number of log writes that failed
    sh_call,        \* the index into sheet_names of the call (sync_group, load_all call the unit once per name)
    sh_trace,       \* history: the steps of the method body executed by the call, in order
    \* ---- repeated sync_sheet on one sheet (extract_gsheet.py) ----
    rs_runs,        \* history: for each sync_sheet run so far, the branch it took and what it wrote
    rs_minted,      \* the number of ObjectIds minted for documents so far
    \* ---- sync_group workers (extract_gsheet.py) ----
    sg_workers,     \* self.workers (0: no pipeline)
    sg_sheets,      \* the rows of each sheet of the group
    sg_db0,         \* history: the collections as they were when sync_group was called
    sg_db,          \* db[name] for each sheet of the group: the set of its documents
    sg_deletions,   \* db["deletions"]: the tombstones, in insertion order
    sg_w,           \* the worker of each sheet: its position and its locals
    sg_minted,      \* number of ObjectId() calls made so far
    \* ---- promoted business keys (transform_for_main.py, ops_mongo.py) ----
    pk_staging,     \* staging_db["formats"]: the set of its documents
    pk_staging_deletions, \* staging_db["deletions"]: the tombstones, in insertion order
    pk_main,        \* main_db["formats"]: the set of its documents
    pk_main_deletions, \* main_db["deletions"]
    pk_last         \* the operation that ran last, with what sync_deletions returned

etl_vars == <<etl_pc, script_i, started, exit_codes, launch_failed, sys_exit>>
ad_vars == <<source, deletions, ad_pc, ad_query, ad_doc, ad_original_id, ad_result,
             ad_faults, ad_calls>>
fd_vars == <<fd_pc, id_fields, sheet, old_documents, new_documents, to_upsert, diff>>
rt_vars == <<rt_pc, rt_max_attempts, rt_backoff, rt_attempt, rt_retry_count, rt_outcomes, rt_waits>>
ss_vars == <<ss_states, ss_clock, ss_runs, ss_writes>>
sd_vars == <<sd_pc, sd_staging, sd_since, sd_fetched, sd_i, sd_synced, sd_attempted, sd_result>>
ur_vars == <<ur_pc, ur_main, ur_lst, ur_fetched, ur_agg>>
g_vars == <<g_nodes, g_edges, g_last, g_since>>
av_vars == <<av_entries, av_result>>
ms_vars == <<ms_string, ms_field_key, ms_result>>
tm_vars == <<tm_pc, tm_raw, tm_output, tm_main, tm_errors, tm_run>>
sh_vars == <<sh_unit, sh_pc, sh_attempt, sh_invocations, sh_success, sh_exc, sh_faults, sh_logs, sh_log_faults, sh_call, sh_trace>>
rs_vars == <<rs_runs, rs_minted>>
sg_vars == <<sg_workers, sg_sheets, sg_db0, sg_db, sg_deletions, sg_w, sg_minted>>
pk_vars == <<pk_staging, pk_staging_deletions, pk_main, pk_main_deletions, pk_last>>
vars == <<etl_vars, ad_vars, fd_vars, rt_vars, ss_vars, sd_vars, ur_vars, g_vars, av_vars, ms_vars, tm_vars, sh_vars, rs_vars, sg_vars, pk_vars>>

(***************************************************************************)
(* Python dict operations on documents.                                    *)
(***************************************************************************)
Keys(doc) == [i \in 1..Len(doc) |-> doc[i][1]]

KeySet(doc) == {doc[i][1] : i \in 1..Len(doc)}

Has(doc, k) == k \in KeySet(doc)

\* doc[k]; only used where Has(doc, k)
Get(doc, k) == doc[CHOOSE i \in 1..Len(doc) : doc[i][1] = k][2]

\* {k: v for k, v in doc.items() if k not in ks}
Without(doc, ks) == SelectSeq(doc, LAMBDA p : p[1] \notin ks)

\* doc[k] = v : replaces the value in place, or appends the key
Put(doc, k, v) ==
    IF Has(doc, k)
    THEN [i \in 1..Len(doc) |-> IF doc[i][1] = k THEN <<k, v>> ELSE doc[i]]
    ELSE Append(doc, <<k, v>>)

\* {**a, **b} : a's keys in a's order (values overridden by b), then b's other keys
RECURSIVE Merge(_, _)
Merge(a, b) == IF b = <<>> THEN a ELSE Merge(Put(a, b[1][1], b[1][2]), Tail(b))

\* The states of the parts a specification does not exercise.
EtlIdle ==
    /\ etl_pc = "idle" /\ script_i = 0 /\ started = <<>> /\ exit_codes = <<>>
    /\ launch_failed = <<>> /\ sys_exit = <<>>

AdIdle ==
    /\ source = {} /\ deletions = <<>> /\ ad_pc = "off" /\ ad_query = "none"
    /\ ad_doc = <<>> /\ ad_original_id = "none" /\ ad_result = <<>>
    /\ ad_faults = {} /\ ad_calls = 0

FdIdle ==
    /\ fd_pc = "off" /\ id_fields = <<>> /\ sheet = <<>> /\ old_documents = <<>>
    /\ new_documents = <<>> /\ to_upsert = <<>>
    /\ diff = [new |-> <<>>, updated |-> <<>>, unchanged |-> <<>>, deleted |-> <<>>]

RtIdle ==
    /\ rt_pc = "off" /\ rt_max_attempts = 0 /\ rt_backoff = 0 /\ rt_attempt = 0
    /\ rt_retry_count = 0 /\ rt_outcomes = <<>> /\ rt_waits = <<>>

SsIdle ==
    /\ ss_states = <<>> /\ ss_clock = 0 /\ ss_runs = <<>> /\ ss_writes = <<>>

SdIdle ==
    /\ sd_pc = "off" /\ sd_staging = <<>> /\ sd_since = "none" /\ sd_fetched = <<>>
    /\ sd_i = 0 /\ sd_synced = 0 /\ sd_attempted = <<>> /\ sd_result = <<>>

UrIdle ==
    /\ ur_pc = "off" /\ ur_main = <<>> /\ ur_lst = 0 /\ ur_fetched = <<>> /\ ur_agg = <<>>

GIdle ==
    /\ g_nodes = {} /\ g_edges = <<>> /\ g_last = <<>> /\ g_since = "none"

AvIdle ==
    /\ av_entries = <<>> /\ av_result = <<>>

MsIdle ==
    /\ ms_string = <<>> /\ ms_field_key = "none" /\ ms_result = <<>>

TmIdle ==
    /\ tm_pc = "off" /\ tm_raw = <<>> /\ tm_output = <<>> /\ tm_main = {}
    /\ tm_errors = <<>> /\ tm_run = 0

ShIdle ==
    /\ sh_unit = "none" /\ sh_pc = "off" /\ sh_attempt = 0 /\ sh_invocations = <<>>
    /\ sh_success = FALSE /\ sh_exc = <<>> /\ sh_faults = <<>> /\ sh_logs = <<>>
    /\ sh_log_faults = 0 /\ sh_call = 0 /\ sh_trace = <<>>

RsIdle ==
    /\ rs_runs = <<>> /\ rs_minted = 0

SgIdle ==
    /\ sg_workers = 0 /\ sg_sheets = <<>> /\ sg_db0 = <<>> /\ sg_db = <<>>
    /\ sg_deletions = <<>> /\ sg_w = <<>> /\ sg_minted = 0

PkIdle ==
    /\ pk_staging = {} /\ pk_staging_deletions = <<>> /\ pk_main = {}
    /\ pk_main_deletions = <<>> /\ pk_last = <<>>

\* Every part but those of ps is in its idle state.
IdleExcept(ps) ==
    /\ IF "etl" \in ps THEN TRUE ELSE EtlIdle
    /\ IF "ad" \in ps THEN TRUE ELSE AdIdle
    /\ IF "fd" \in ps THEN TRUE ELSE FdIdle
    /\ IF "rt" \in ps THEN TRUE ELSE RtIdle
    /\ IF "ss" \in ps THEN TRUE ELSE SsIdle
    /\ IF "sd" \in ps THEN TRUE ELSE SdIdle
    /\ IF "ur" \in ps THEN TRUE ELSE UrIdle
    /\ IF "g" \in ps THEN TRUE ELSE GIdle
    /\ IF "av" \in ps THEN TRUE ELSE AvIdle
    /\ IF "ms" \in ps THEN TRUE ELSE MsIdle
    /\ IF "tm" \in ps THEN TRUE ELSE TmIdle
    /\ IF "sh" \in ps THEN TRUE ELSE ShIdle
    /\ IF "rs" \in ps THEN TRUE ELSE RsIdle
    /\ IF "sg" \in ps THEN TRUE ELSE SgIdle
    /\ IF "pk" \in ps THEN TRUE ELSE PkIdle

\* A step of the parts ps leaves the variables of the other parts alone.
Frame(ps) ==
    /\ IF "etl" \in ps THEN TRUE ELSE UNCHANGED etl_vars
    /\ IF "ad" \in ps THEN TRUE ELSE UNCHANGED ad_vars
    /\ IF "fd" \in ps THEN TRUE ELSE UNCHANGED fd_vars
    /\ IF "rt" \in ps THEN TRUE ELSE UNCHANGED rt_vars
    /\ IF "ss" \in ps THEN TRUE ELSE UNCHANGED ss_vars
    /\ IF "sd" \in ps THEN TRUE ELSE UNCHANGED sd_vars
    /\ IF "ur" \in ps THEN TRUE ELSE UNCHANGED ur_vars
    /\ IF "g" \in ps THEN TRUE ELSE UNCHANGED g_vars
    /\ IF "av" \in ps THEN TRUE ELSE UNCHANGED av_vars
    /\ IF "ms" \in ps THEN TRUE ELSE UNCHANGED ms_vars
    /\ IF "tm" \in ps THEN TRUE ELSE UNCHANGED tm_vars
    /\ IF "sh" \in ps THEN TRUE ELSE UNCHANGED sh_vars
    /\ IF "rs" \in ps THEN TRUE ELSE UNCHANGED rs_vars
    /\ IF "sg" \in ps THEN TRUE ELSE UNCHANGED sg_vars
    /\ IF "pk" \in ps THEN TRUE ELSE UNCHANGED pk_vars


(***************************************************************************)
(* Hashing and delta engine: src/utils/parsers.py                          *)
(***************************************************************************)
\* The keys of the model's documents in the order sort_keys=True puts them
\* (code-point order of the key strings).
KeyOrder == << "_id", "deleted_at", "full_hash", "id_hash", "name", "note",
               "original_collection", "original_id", "updated_at" >>

\* The text of the members of doc under the keys ks, in the order of ks.
RECURSIVE DumpItems(_, _)
DumpItems(doc, ks) ==
    IF ks = <<>> THEN ""
    ELSE (IF Has(doc, Head(ks))
          THEN Head(ks) \o ":" \o Get(doc, Head(ks)) \o ","
          ELSE "") \o DumpItems(doc, Tail(ks))

\* Mutant of json_dumps: sort_keys is left out, the members are written in
\* the dict's own order.
json_dumps_unsorted(doc) == "{" \o DumpItems(doc, Keys(doc)) \o "}"

\* json.dumps(doc, sort_keys=True)
json_dumps(doc) == "{" \o DumpItems(doc, KeyOrder) \o "}"

\* safe_value: ObjectId and datetime values become text; the values of the
\* model's documents are str, which safe_value returns unchanged.
safe_value(doc) == [i \in 1..Len(doc) |-> <<doc[i][1], doc[i][2]>>]

\* hash_doc.  SHA-1 is taken to be collision free: the digest is modelled by
\* the text it is computed over.
hash_doc(doc) == json_dumps(safe_value(doc))

ignore_keys == {"_id", "full_hash", "id_hash", "updated_at"}

\* add_hashes, body of the loop: whether identity_data raises KeyError
add_hashes_raises(doc, idf) ==
    \E i \in 1..Len(idf) : ~Has(Without(doc, ignore_keys), idf[i])

\* add_hashes, body of the loop: mod_doc
add_hashes_doc(doc, idf) ==
    LET full_data == Without(doc, ignore_keys)
        identity_data == [i \in 1..Len(idf) |-> <<idf[i], Get(full_data, idf[i])>>]
    IN Put(Put(doc, "full_hash", hash_doc(full_data)), "id_hash", hash_doc(identity_data))

\* add_hashes: mod_docs (the id_hashes and full_hashes lists are its columns)
add_hashes(documents, idf) == [i \in 1..Len(documents) |-> add_hashes_doc(documents[i], idf)]

\* dict.get(k): the value, or None
GetOrNone(doc, k) == IF Has(doc, k) THEN Get(doc, k) ELSE "None"

\* Mutant of new_lookup: the index is keyed by full_hash instead of id_hash.
new_lookup_by_full_hash(new, h) ==
    LET S == {i \in 1..Len(new) : Get(new[i], "full_hash") = h}
    IN IF S = {} THEN <<>> ELSE new[CHOOSE i \in S : \A j \in S : j <= i]

\* new_lookup.get(h) with new_lookup = {doc["id_hash"]: doc for doc in new}:
\* the last document of new with that id_hash, <<>> for None
new_lookup(new, h) ==
    LET S == {i \in 1..Len(new) : Get(new[i], "id_hash") = h}
    IN IF S = {} THEN <<>> ELSE new[CHOOSE i \in S : \A j \in S : j <= i]

\* Mutant of Classify: the unchanged test compares full_hash with id_hash.
Classify_wrong_hash(old_doc, new) ==
    LET new_doc == new_lookup(new, Get(old_doc, "id_hash"))
    IN IF new_doc = <<>> THEN "deleted"
       ELSE IF GetOrNone(old_doc, "full_hash") = GetOrNone(new_doc, "id_hash") THEN "unchanged"
       ELSE "updated"

\* The branch the old-document loop takes for old_doc.
Classify(old_doc, new) ==
    LET new_doc == new_lookup(new, Get(old_doc, "id_hash"))
    IN IF new_doc = <<>> THEN "deleted"
       ELSE IF GetOrNone(old_doc, "full_hash") = GetOrNone(new_doc, "full_hash") THEN "unchanged"
       ELSE "updated"

\* changes: the field-level differences (a dict keyed by field, here a set)
Changes(old_doc, new_doc) ==
    { [key |-> k, from |-> GetOrNone(old_doc, k), to |-> GetOrNone(new_doc, k)] :
        k \in { x \in (KeySet(old_doc) \cup KeySet(new_doc)) \ ignore_keys :
                  GetOrNone(old_doc, x) # GetOrNone(new_doc, x) } }

\* Mutant of updated_doc: the new document's _id is not stripped.
updated_doc_keeps_new_id(old_doc, new_doc) ==
    Merge(<< <<"_id", Get(old_doc, "_id")>> >>, new_doc)

\* updated_doc = {"_id": old_doc["_id"], **clean_new}
updated_doc(old_doc, new_doc) ==
    Merge(<< <<"_id", Get(old_doc, "_id")>> >>, Without(new_doc, {"_id"}))

\* ObjectId(): the k-th identifier minted by a call; minted identifiers are
\* distinct from each other and from every identifier that exists already.
MintedIds == << "m1", "m2", "m3", "m4", "m5", "m6" >>

ObjectId(k) == MintedIds[k]

\* new_entry = {"_id": ObjectId(), **new_doc}
new_entry(new_doc, k) == Merge(<< <<"_id", ObjectId(k)>> >>, new_doc)

\* Mutant of Written: the unchanged branch lacks its continue and falls
\* through to the code that builds the updated document.
Written_no_continue(old, new) ==
    SelectSeq(old, LAMBDA o : Classify(o, new) \in {"updated", "unchanged"})

\* The old documents that reach the code building updated_doc, in loop order.
Written(old, new) == SelectSeq(old, LAMBDA o : Classify(o, new) = "updated")

\* find_deltas
find_deltas(old, new) ==
    LET upd == Written(old, new)
        matched_new_hashes ==
            { Get(old[i], "id_hash") : i \in { j \in 1..Len(old) : Classify(old[j], new) # "deleted" } }
        fresh == SelectSeq(new, LAMBDA n : Get(n, "id_hash") \notin matched_new_hashes)
        new_entries == [k \in 1..Len(fresh) |-> new_entry(fresh[k], k)]
    IN [ to_upsert |->
            [k \in 1..Len(upd) |->
                updated_doc(upd[k], new_lookup(new, Get(upd[k], "id_hash")))] \o new_entries,
         diff |->
            [ new |-> new_entries,
              updated |->
                [k \in 1..Len(upd) |->
                    [ _id |-> Get(upd[k], "_id"),
                      id_hash |-> Get(upd[k], "id_hash"),
                      changes |-> Changes(upd[k], new_lookup(new, Get(upd[k], "id_hash"))) ]],
              unchanged |-> SelectSeq(old, LAMBDA o : Classify(o, new) = "unchanged"),
              deleted |-> SelectSeq(old, LAMBDA o : Classify(o, new) = "deleted") ] ]

(***************************************************************************)
(* The inputs of add_hashes and find_deltas, as sync_sheet produces them.  *)
(***************************************************************************)
\* Bounds of the model: the number of stored documents and of sheet rows.
MaxOld == 2

MaxNew == 2

\* id_map["genres"]: the identity field list of a collection
id_map_genres == << "name" >>

Names == {"a", "b"}

Notes == {"x", "y"}

\* The _id values of the stored documents (distinct ObjectIds).
OldIds == << "o1", "o2", "o3", "o4" >>

\* A row of the sheet, as load_sheet returns it: in either column order, and
\* possibly carrying bookkeeping keys of its own (an _id equal to a stored
\* document's or a foreign one, stale hashes, a time stamp).
Rows ==
    { << <<"name", n>>, <<"note", t>> >> : n \in Names, t \in Notes }
    \cup { << <<"note", t>>, <<"name", n>> >> : n \in Names, t \in Notes }
    \cup { << <<"_id", "o2">>, <<"name", "a">>, <<"note", "y">>, <<"updated_at", "t9">> >>,
           << <<"note", "y">>, <<"name", "b">>, <<"_id", "s1">>,
              <<"full_hash", "stale">>, <<"id_hash", "stale">> >> }

\* A document of the staging collection: a row hashed by add_hashes and
\* written by upsert_documents (which sets updated_at) under the _id it got.
StoredDoc(i, n, t) ==
    Put(Merge(<< <<"_id", OldIds[i]>> >>,
              add_hashes_doc(<< <<"name", n>>, <<"note", t>> >>, id_map_genres)),
        "updated_at", "t0")

NoDiff == [new |-> <<>>, updated |-> <<>>, unchanged |-> <<>>, deleted |-> <<>>]

InitDeltas ==
    /\ fd_pc = "input" /\ id_fields = id_map_genres /\ sheet = <<>>
    /\ old_documents = <<>> /\ new_documents = <<>> /\ to_upsert = <<>> /\ diff = NoDiff
    /\ IdleExcept({"fd"})

\* one more document is in the stored snapshot (fetch_docs)
StoreDocument(n, t) ==
    /\ fd_pc = "input"
    /\ Len(old_documents) < MaxOld
    /\ old_documents' = Append(old_documents, StoredDoc(Len(old_documents) + 1, n, t))
    /\ UNCHANGED <<fd_pc, id_fields, sheet, new_documents, to_upsert, diff>>

\* one more row is in the sheet (load_sheet)
LoadRow(r) ==
    /\ fd_pc = "input"
    /\ Len(sheet) < MaxNew
    /\ sheet' = Append(sheet, r)
    /\ UNCHANGED <<fd_pc, id_fields, old_documents, new_documents, to_upsert, diff>>

\* new_list, _, new_fh = add_hashes(new_list, self.id_map[name])
AddHashes ==
    /\ fd_pc = "input"
    /\ IF \E i \in 1..Len(sheet) : add_hashes_raises(sheet[i], id_fields)
       THEN fd_pc' = "KeyError" /\ new_documents' = new_documents
       ELSE fd_pc' = "hashed" /\ new_documents' = add_hashes(sheet, id_fields)
    /\ UNCHANGED <<id_fields, sheet, old_documents, to_upsert, diff>>

\* the stored snapshot itself is handed to find_deltas as the new snapshot
SameSnapshot ==
    /\ fd_pc = "input"
    /\ sheet = <<>>
    /\ new_documents' = old_documents
    /\ fd_pc' = "hashed"
    /\ UNCHANGED <<id_fields, sheet, old_documents, to_upsert, diff>>

\* to_upsert, diff = find_deltas(old_list, new_list)
FindDeltas ==
    /\ fd_pc = "hashed"
    /\ LET r == find_deltas(old_documents, new_documents)
       IN to_upsert' = r.to_upsert /\ diff' = r.diff
    /\ fd_pc' = "done"
    /\ UNCHANGED <<id_fields, sheet, old_documents, new_documents>>

NextDeltas ==
    \/ (\E n \in Names, t \in Notes : StoreDocument(n, t) /\ Frame({"fd"}))
    \/ (\E r \in Rows : LoadRow(r) /\ Frame({"fd"}))
    \/ (AddHashes /\ Frame({"fd"}))
    \/ (SameSnapshot /\ Frame({"fd"}))
    \/ (FindDeltas /\ Frame({"fd"}))

SpecDeltas == InitDeltas /\ [][NextDeltas]_vars

(***************************************************************************)
(* Properties of find_deltas and add_hashes.                               *)
(***************************************************************************)
IdHash(d) == Get(d, "id_hash")

FullHash(d) == Get(d, "full_hash")

OldIdx == 1..Len(old_documents)

NewIdx == 1..Len(new_documents)

\* the new records that carry the id_hash of old record i
Partners(i) == {j \in NewIdx : IdHash(new_documents[j]) = IdHash(old_documents[i])}

\* the last of them: the one the id_hash index of find_deltas holds
LastPartner(i) == CHOOSE j \in Partners(i) : \A m \in Partners(i) : m <= j

\* the non-bookkeeping key/value pairs of a record, without their order
Content(d) == {<<d[i][1], d[i][2]>> : i \in {m \in 1..Len(d) : d[m][1] \notin ignore_keys}}

\* C3: every old record whose id_hash no new record carries is in
\* diff.deleted exactly once, and diff.deleted holds nothing else.
C3_DeletedExactlyTheVanished ==
    fd_pc = "done" =>
        /\ \A i \in OldIdx : Partners(i) = {} =>
              Cardinality({k \in 1..Len(diff.deleted) : diff.deleted[k] = old_documents[i]}) = 1
        /\ \A k \in 1..Len(diff.deleted) :
              \E i \in OldIdx : Partners(i) = {} /\ diff.deleted[k] = old_documents[i]

\* C3 witness: of two stored records one has vanished from the new snapshot
\* and the other is still there.
C3_Witness ==
    /\ fd_pc = "done"
    /\ Len(old_documents) = 2
    /\ Len(diff.deleted) = 1
    /\ \E i \in OldIdx : Partners(i) # {}

\* C4: for an old record whose id_hash is carried by a new record with another
\* full_hash, every document of to_upsert under that id_hash has the _id of an
\* old record of that id_hash (none is minted, none is the new record's); and
\* when the new record indexed under the id_hash (the last one carrying it)
\* differs in full_hash, to_upsert and diff.updated hold, at the same position,
\* an entry with the old record's _id whose other fields are the new record's.
C4_UpdatedKeepsOldId ==
    fd_pc = "done" =>
        /\ \A i \in OldIdx :
              (\E j \in Partners(i) : FullHash(new_documents[j]) # FullHash(old_documents[i])) =>
                 \A k \in 1..Len(to_upsert) :
                    IdHash(to_upsert[k]) = IdHash(old_documents[i]) =>
                       \E m \in OldIdx :
                          /\ IdHash(old_documents[m]) = IdHash(old_documents[i])
                          /\ Get(to_upsert[k], "_id") = Get(old_documents[m], "_id")
        /\ \A i \in OldIdx :
              (Partners(i) # {}
                 /\ FullHash(new_documents[LastPartner(i)]) # FullHash(old_documents[i])) =>
                 \E k \in 1..Len(diff.updated) :
                    /\ Get(to_upsert[k], "_id") = Get(old_documents[i], "_id")
                    /\ diff.updated[k]._id = Get(old_documents[i], "_id")
                    /\ diff.updated[k].id_hash = IdHash(old_documents[i])
                    /\ Without(to_upsert[k], {"_id"})
                         = Without(new_documents[LastPartner(i)], {"_id"})

\* C4 witness: an old record is updated from a new record that carries an _id
\* of its own, different from the old record's.
C4_Witness ==
    /\ fd_pc = "done"
    /\ \E i \in OldIdx :
          /\ Partners(i) # {}
          /\ FullHash(new_documents[LastPartner(i)]) # FullHash(old_documents[i])
          /\ Has(new_documents[LastPartner(i)], "_id")
          /\ Get(new_documents[LastPartner(i)], "_id") # Get(old_documents[i], "_id")
          /\ Len(diff.updated) >= 1

NothingToDo ==
    /\ to_upsert = <<>> /\ diff.new = <<>> /\ diff.updated = <<>> /\ diff.deleted = <<>>

\* C5 as stated: find_deltas(S, S) returns nothing to upsert and empty new,
\* updated and deleted lists, for every snapshot S.
C5_Original ==
    (fd_pc = "done" /\ new_documents = old_documents) => NothingToDo

\* no two records of the old snapshot share an id_hash and differ in full_hash
NoConflict ==
    \A i, j \in OldIdx :
        IdHash(old_documents[i]) = IdHash(old_documents[j]) =>
            FullHash(old_documents[i]) = FullHash(old_documents[j])

\* C5 amended: find_deltas(S, S) returns nothing to upsert and empty new,
\* updated and deleted lists, for every snapshot S in which the records that
\* share an id_hash also share their full_hash.
C5_SameSnapshotNoDeltas ==
    (fd_pc = "done" /\ new_documents = old_documents /\ NoConflict) =>
        (NothingToDo /\ diff.unchanged = old_documents)

\* C5 witness: a snapshot of two records was classified against itself.
C5_Witness ==
    /\ fd_pc = "done"
    /\ Len(old_documents) = 2
    /\ new_documents = old_documents
    /\ NoConflict

\* the new records whose id_hash no old record carries
FreshIdx == {j \in NewIdx : \A i \in OldIdx : IdHash(old_documents[i]) # IdHash(new_documents[j])}

MintedSet == {MintedIds[k] : k \in 1..Len(MintedIds)}

\* C6: every new record whose id_hash no old record carries has exactly one
\* entry in diff.new (in order), the same entry is in to_upsert after the
\* updated documents, and its _id is newly minted; against an empty old
\* snapshot every new record is new and nothing is updated or deleted.
C6_NewGetsMintedId ==
    fd_pc = "done" =>
        /\ Len(diff.new) = Cardinality(FreshIdx)
        /\ \A j \in FreshIdx :
              LET k == Cardinality({m \in FreshIdx : m <= j})
              IN /\ Without(diff.new[k], {"_id"}) = Without(new_documents[j], {"_id"})
                 /\ to_upsert[Len(diff.updated) + k] = diff.new[k]
                 /\ Get(diff.new[k], "_id") \in MintedSet
                 /\ \A k2 \in 1..Len(diff.new) :
                       k2 # k => Get(diff.new[k2], "_id") # Get(diff.new[k], "_id")
        /\ old_documents = <<>> =>
              /\ Len(diff.new) = Len(new_documents)
              /\ diff.updated = <<>> /\ diff.deleted = <<>>

\* an entry of to_upsert is a write of old record i: it has the record's _id
\* and id_hash
WrittenBack(i) ==
    \E k \in 1..Len(to_upsert) :
        /\ Get(to_upsert[k], "_id") = Get(old_documents[i], "_id")
        /\ IdHash(to_upsert[k]) = IdHash(old_documents[i])

\* C7 as stated: an old record whose id_hash and full_hash both match a record
\* of the new snapshot is not written, and to_upsert has as many documents as
\* diff.updated and diff.new together.
C7_Original ==
    fd_pc = "done" =>
        /\ Len(to_upsert) = Len(diff.updated) + Len(diff.new)
        /\ \A i \in OldIdx :
              (\E j \in Partners(i) : FullHash(new_documents[j]) = FullHash(old_documents[i]))
                 => ~WrittenBack(i)

\* C7 amended: to_upsert is the updated documents followed by the new
\* documents (its length is len(diff.updated) + len(diff.new)), and an old
\* record whose id_hash and full_hash both match the new record indexed under
\* its id_hash (the last new record carrying it) has no document in
\* to_upsert: none of the updated documents has its _id and none of the new
\* documents has its id_hash.
C7_NoWriteForUnchanged ==
    fd_pc = "done" =>
        /\ Len(to_upsert) = Len(diff.updated) + Len(diff.new)
        /\ \A k \in 1..Len(diff.updated) : Get(to_upsert[k], "_id") = diff.updated[k]._id
        /\ \A k \in 1..Len(diff.new) : to_upsert[Len(diff.updated) + k] = diff.new[k]
        /\ \A i \in OldIdx :
              (Partners(i) # {}
                 /\ FullHash(new_documents[LastPartner(i)]) = FullHash(old_documents[i])) =>
                 /\ \A k \in 1..Len(diff.updated) :
                       Get(to_upsert[k], "_id") # Get(old_documents[i], "_id")
                 /\ \A k \in 1..Len(diff.new) :
                       IdHash(diff.new[k]) # IdHash(old_documents[i])
                 /\ ~WrittenBack(i)

\* C7 witness: one stored record is unchanged while another document is
\* written.
C7_Witness ==
    /\ fd_pc = "done"
    /\ Len(diff.unchanged) = 1
    /\ Len(to_upsert) >= 1
    /\ Len(diff.updated) = 1

\* add_hashes gives two records with the same non-bookkeeping key/value pairs
\* the same full_hash and id_hash: among the rows of one call, and between a
\* row and a stored document hashed by an earlier call
SameContentSameHashes ==
    (fd_pc \in {"hashed", "done"} /\ Len(new_documents) = Len(sheet)) =>
        /\ \A i, j \in NewIdx :
              Content(sheet[i]) = Content(sheet[j]) =>
                 /\ FullHash(new_documents[i]) = FullHash(new_documents[j])
                 /\ IdHash(new_documents[i]) = IdHash(new_documents[j])
        /\ \A i \in OldIdx : \A j \in NewIdx :
              Content(old_documents[i]) = Content(sheet[j]) =>
                 /\ FullHash(old_documents[i]) = FullHash(new_documents[j])
                 /\ IdHash(old_documents[i]) = IdHash(new_documents[j])

InUnchanged(i) == \E k \in 1..Len(diff.unchanged) : diff.unchanged[k] = old_documents[i]

\* C8 as stated: equal content gives equal hashes whatever the key order and
\* the bookkeeping values, and an old record re-submitted with the same
\* content in another key order is classified unchanged.
C8_Original ==
    /\ SameContentSameHashes
    /\ fd_pc = "done" =>
          \A i \in OldIdx :
             (\E j \in NewIdx :
                 /\ Content(new_documents[j]) = Content(old_documents[i])
                 /\ Keys(Without(new_documents[j], ignore_keys))
                      # Keys(Without(old_documents[i], ignore_keys)))
                => InUnchanged(i)

\* C8 amended: equal content gives equal hashes whatever the key order and
\* the values of _id, full_hash, id_hash and updated_at; and an old record
\* whose content equals that of the new record indexed under its id_hash (the
\* last new record carrying it) is classified unchanged and not written.
C8_HashIgnoresOrderAndBookkeeping ==
    /\ SameContentSameHashes
    /\ fd_pc = "done" =>
          \A i \in OldIdx :
             (Partners(i) # {}
                /\ Content(new_documents[LastPartner(i)]) = Content(old_documents[i])) =>
                (InUnchanged(i) /\ ~WrittenBack(i))

\* C8 witness: a stored record was re-submitted with the same content in the
\* other column order and was classified unchanged.
C8_Witness ==
    /\ fd_pc = "done"
    /\ Len(sheet) = Len(new_documents)
    /\ \E i \in OldIdx :
          /\ Partners(i) # {}
          /\ Content(new_documents[LastPartner(i)]) = Content(old_documents[i])
          /\ Keys(Without(new_documents[LastPartner(i)], ignore_keys))
               # Keys(Without(old_documents[i], ignore_keys))
          /\ InUnchanged(i)

(***************************************************************************)
(* Deletion propagator: src/utils/ops_mongo.py archive_delete.             *)
(* The call is modelled store call by store call; a store call may raise.  *)
(***************************************************************************)
\* Bounds of the model: the documents of the source collection, and the
\* number of archive_delete calls.
MaxDocs == 2

MaxCalls == 3

collection_name == "genres"

\* datetime.now(timezone.utc) at the k-th call
Clock == << "t1", "t2", "t3", "t4", "t5", "t6" >>

\* The documents of the source collection: documents written by the sheet
\* sync.  None of the program's collections has a field named original_id.
SourceDocs == { StoredDoc(i, "a", "x") : i \in 1..MaxDocs }

\* The _id values a filter query may name: the stored ones and one more.
QueryIds == { OldIds[i] : i \in 1..(MaxDocs + 1) }

InitArchive ==
    /\ source = SourceDocs /\ deletions = <<>> /\ ad_pc = "idle" /\ ad_query = "none"
    /\ ad_doc = <<>> /\ ad_original_id = "none" /\ ad_result = <<>>
    /\ ad_faults = {} /\ ad_calls = 0
    /\ IdleExcept({"ad"})

\* the dict archive_delete returns
Result(deleted, archived, info) == [deleted |-> deleted, archived |-> archived, info |-> info]

\* archive_delete(db, collection_name, {"_id": id}) is called
ArchiveDeleteCalled(id) ==
    /\ ad_pc \in {"idle", "returned"}
    /\ ad_calls < MaxCalls
    /\ ad_calls' = ad_calls + 1
    /\ ad_query' = id
    /\ ad_doc' = <<>> /\ ad_original_id' = "none" /\ ad_result' = <<>> /\ ad_faults' = {}
    /\ ad_pc' = "find"
    /\ UNCHANGED <<source, deletions>>

\* source.find_one(query): the matching documents
find_one(coll, id) == {d \in coll : Get(d, "_id") = id}

\* Mutant of FoundDocs: find_one_and_delete in place of find_one, the document
\* leaves the collection when it is read.
FoundDocs_find_one_and_delete(coll, id) == coll \ find_one(coll, id)

\* the source collection after the find step
FoundDocs(coll, id) == coll

\* doc = source.find_one(query); not found -> return; original_id = doc.pop("_id")
FindOne ==
    /\ ad_pc = "find"
    /\ LET found == find_one(source, ad_query)
       IN IF found = {}
          THEN /\ ad_result' = Result(FALSE, FALSE, "Document not found")
               /\ ad_pc' = "returned"
               /\ UNCHANGED <<ad_doc, ad_original_id>>
          ELSE LET doc == CHOOSE d \in found : TRUE
               IN /\ ad_original_id' = Get(doc, "_id")
                  /\ ad_doc' = Without(doc, {"_id"})
                  /\ ad_pc' = "insert"
                  /\ UNCHANGED ad_result
    /\ source' = FoundDocs(source, ad_query)
    /\ UNCHANGED <<deletions, ad_query, ad_faults, ad_calls>>

\* a store call raises: the except branch logs and returns
StoreCallRaises(step) ==
    /\ ad_pc = step
    /\ ad_faults' = ad_faults \cup {step}
    /\ ad_result' = Result(FALSE, FALSE, "error")
    /\ ad_pc' = "returned"
    /\ UNCHANGED <<source, deletions, ad_query, ad_doc, ad_original_id, ad_calls>>

\* archived_doc = {"_id": ObjectId(), **doc, "original_id": ..., ...}
archived_doc(doc, original_id, k) ==
    Put(Put(Put(Merge(<< <<"_id", ObjectId(k)>> >>, doc),
                "original_id", original_id),
            "original_collection", collection_name),
        "deleted_at", Clock[k])

\* deletions.insert_one(archived_doc)
InsertOne ==
    /\ ad_pc = "insert"
    /\ deletions' = Append(deletions, archived_doc(ad_doc, ad_original_id, ad_calls))
    /\ ad_pc' = "delete"
    /\ UNCHANGED <<source, ad_query, ad_doc, ad_original_id, ad_result, ad_faults, ad_calls>>

\* result = source.delete_one({"_id": doc["original_id"]}) and the return.
\* doc is the found document without its _id: the subscript raises KeyError
\* unless the document has a field original_id of its own; the except branch
\* then returns deleted False, archived False.
DeleteOne ==
    /\ ad_pc = "delete"
    /\ IF Has(ad_doc, "original_id")
       THEN \E raises \in BOOLEAN :
               IF raises
               THEN /\ ad_faults' = ad_faults \cup {"delete"}
                    /\ ad_result' = Result(FALSE, FALSE, "error")
                    /\ source' = source
               ELSE LET hit == find_one(source, Get(ad_doc, "original_id"))
                    IN /\ source' = source \ hit
                       /\ ad_result' = Result(Cardinality(hit) = 1, TRUE, "archived")
                       /\ ad_faults' = ad_faults
       ELSE /\ ad_faults' = ad_faults \cup {"KeyError"}
            /\ ad_result' = Result(FALSE, FALSE, "error")
            /\ source' = source
    /\ ad_pc' = "returned"
    /\ UNCHANGED <<deletions, ad_query, ad_doc, ad_original_id, ad_calls>>

NextArchive ==
    \/ (\E id \in QueryIds : ArchiveDeleteCalled(id) /\ Frame({"ad"}))
    \/ (FindOne /\ Frame({"ad"}))
    \/ (\E step \in {"find", "insert"} : StoreCallRaises(step) /\ Frame({"ad"}))
    \/ (InsertOne /\ Frame({"ad"}))
    \/ (DeleteOne /\ Frame({"ad"}))

SpecArchive == InitArchive /\ [][NextArchive]_vars

\* the tombstones of document d
Tombstones(d) ==
    { k \in 1..Len(deletions) :
        /\ Get(deletions[k], "original_id") = Get(d, "_id")
        /\ Get(deletions[k], "original_collection") = collection_name
        /\ Has(deletions[k], "deleted_at")
        /\ Content(deletions[k]) \ {<<"original_id", Get(d, "_id")>>,
                                    <<"original_collection", collection_name>>,
                                    <<"deleted_at", Get(deletions[k], "deleted_at")>>}
             = Content(d) }

\* C1: when archive_delete returns from a call whose filter matched a document
\* and in which no store call failed, the document is gone from the source
\* collection, a tombstone with original_id, original_collection and
\* deleted_at is in deletions, and the result is deleted = true, archived = true.
C1_ArchiveDeleteRemoves ==
    (ad_pc = "returned" /\ ad_original_id # "none" /\ ad_faults \cap {"find", "insert", "delete"} = {}) =>
        /\ find_one(source, ad_original_id) = {}
        /\ \E d \in SourceDocs : Get(d, "_id") = ad_original_id /\ Tombstones(d) # {}
        /\ ad_result.deleted /\ ad_result.archived

\* C2: a document that is no longer in the source collection has a tombstone;
\* between the insert and the delete, and after a delete step that failed, the
\* document is still in the collection and its tombstone is in deletions
\* (possibly more than once after repeated calls).
C2_TombstoneBeforeRemoval ==
    /\ \A d \in SourceDocs : d \notin source => Tombstones(d) # {}
    /\ (ad_pc = "delete" \/ (ad_pc = "returned" /\ ad_faults \cap {"delete", "KeyError"} # {})) =>
          \E d \in source : Get(d, "_id") = ad_original_id /\ Tombstones(d) # {}
    /\ \A k \in 1..Len(deletions) : \E d \in SourceDocs : k \in Tombstones(d)

\* C2 witness: the delete step of a second call for the same document failed
\* after its tombstone was inserted: the document is in place, with two
\* tombstones.
C2_Witness ==
    /\ ad_pc = "returned"
    /\ ad_faults \cap {"delete", "KeyError"} # {}
    /\ \E d \in source : Get(d, "_id") = ad_original_id /\ Cardinality(Tombstones(d)) = 2

(***************************************************************************)
(* Orchestrator: src/etl.py                                                *)
(***************************************************************************)
scripts == << "src/etl/extract_gsheet.py", "src/etl/transform_bronze.py",
              "src/etl/load_mongo.py", "src/etl/sync_images.py",
              "src/etl/transform_silver.py", "src/etl/load_aura.py" >>

\* Return codes a child process can end with (negative: killed by a signal).
ExitCodes == {0, 10, 1, 2, 11, 127, 255, -9}

InitEtl ==
    /\ etl_pc = "loop" /\ script_i = 1 /\ started = <<>> /\ exit_codes = <<>>
    /\ launch_failed = <<>> /\ sys_exit = <<>>
    /\ IdleExcept({"etl"})

\* for script in scripts: exit_code = run_script(script)   -- the call is entered
StartScript ==
    /\ etl_pc = "loop"
    /\ script_i <= Len(scripts)
    /\ started' = Append(started, scripts[script_i])
    /\ etl_pc' = "running"
    /\ UNCHANGED <<script_i, exit_codes, launch_failed, sys_exit>>

\* run_script: subprocess.run returned; the return code is handed back as is
run_script_returns(code) ==
    /\ etl_pc = "running"
    /\ exit_codes' = Append(exit_codes, code)
    /\ launch_failed' = Append(launch_failed, FALSE)
    /\ etl_pc' = "check"
    /\ UNCHANGED <<script_i, started, sys_exit>>

\* the value run_script's except branch returns
GenericError == 1

\* run_script: subprocess.run raised (the script could not be launched)
run_script_raises ==
    /\ etl_pc = "running"
    /\ exit_codes' = Append(exit_codes, GenericError)
    /\ launch_failed' = Append(launch_failed, TRUE)
    /\ etl_pc' = "check"
    /\ UNCHANGED <<script_i, started, sys_exit>>

\* Mutant of Disposition: exit code 10 is treated like 0 and the loop goes on.
Disposition_ten_continues(exit_code) ==
    IF exit_code = 0 \/ exit_code = 10 THEN <<>> ELSE <<1>>

\* Mutant of Disposition: exit code 10 falls into the failure branch.
Disposition_ten_fails(exit_code) ==
    IF exit_code = 0 THEN <<>> ELSE <<1>>

\* what main does with an exit code: <<>> for "continue", or <<status>> for sys.exit(status)
Disposition(exit_code) ==
    IF exit_code = 0 THEN <<>>
    ELSE IF exit_code = 10 THEN <<0>>
    ELSE <<1>>

\* main: the three-way test on exit_code, and the loop's end
CheckExit ==
    /\ etl_pc = "check"
    /\ LET exit_code == exit_codes[Len(exit_codes)]
           d == Disposition(exit_code)
       IN IF d = <<>>
          THEN /\ script_i' = script_i + 1
               /\ IF script_i = Len(scripts)
                  THEN etl_pc' = "completed" /\ sys_exit' = <<0>>
                  ELSE etl_pc' = "loop" /\ sys_exit' = sys_exit
          ELSE /\ etl_pc' = "exited"
               /\ sys_exit' = d
               /\ script_i' = script_i
    /\ UNCHANGED <<started, exit_codes, launch_failed>>

NextEtl ==
    \/ (StartScript /\ Frame({"etl"}))
    \/ (\E code \in ExitCodes : run_script_returns(code) /\ Frame({"etl"}))
    \/ (run_script_raises /\ Frame({"etl"}))
    \/ (CheckExit /\ Frame({"etl"}))

SpecEtl == InitEtl /\ [][NextEtl]_vars

\* The positions of the non-zero codes run_script has returned so far.
NonZero == {k \in 1..Len(exit_codes) : exit_codes[k] # 0}

FirstNonZero == CHOOSE k \in NonZero : \A j \in NonZero : k <= j

\* C9: the phases are started in the listed order, and a phase is started only
\* if every earlier phase returned exit code 0; so once a phase has returned 10
\* or any other non-zero code, no later phase is started in that run.
C9_PhasesStopAtFirstNonZero ==
    /\ Len(started) <= Len(scripts)
    /\ \A k \in 1..Len(started) : started[k] = scripts[k]
    /\ \A k \in 1..Len(started) : \A j \in 1..(k - 1) :
          j <= Len(exit_codes) /\ exit_codes[j] = 0
    /\ NonZero # {} => Len(started) = FirstNonZero

\* C9 witness: the third phase returned 10 and the run ended with three of the
\* six phases started.
C9_Witness ==
    /\ etl_pc = "exited"
    /\ exit_codes = <<0, 0, 10>>
    /\ Len(started) = Len(exit_codes)

\* C10: when the orchestrator has ended, its status is 0 exactly when all six
\* phases returned 0 or the first non-zero code was 10, and 1 exactly when the
\* first non-zero code was something else; a script that could not be launched
\* counts as exit code 1.  The orchestrator ends as soon as a non-zero code was
\* examined, and not before the last phase otherwise.
C10_OverallExitStatus ==
    /\ \A k \in 1..Len(launch_failed) : launch_failed[k] => exit_codes[k] = 1
    /\ sys_exit # <<>> =>
          /\ sys_exit = <<0>> <=>
                \/ NonZero = {} /\ Len(exit_codes) = Len(scripts)
                \/ NonZero # {} /\ exit_codes[FirstNonZero] = 10
          /\ sys_exit = <<1>> <=>
                NonZero # {} /\ exit_codes[FirstNonZero] # 10
    /\ sys_exit = <<>> => (NonZero = {} \/ etl_pc = "check")
    /\ etl_pc \in {"exited", "completed"} <=> sys_exit # <<>>

\* C10 witness: the second script could not be launched and the run ended
\* with status 1.
C10_Witness ==
    /\ sys_exit = <<1>>
    /\ launch_failed = <<FALSE, TRUE>>
    /\ exit_codes = <<0, 1>>

(***************************************************************************)
(* Retry decorator: src/utils/connectors.py retry.                         *)
(* One step is one pass of the wrapper's while loop: an invocation of the  *)
(* wrapped function and the handling of what it did.                       *)
(***************************************************************************)
\* Bounds of the model: the largest max_attempts, and the number of
\* invocations of the wrapped function that are followed.
MaxAttempts == 3

MaxInvocations == 4

\* the values of backoff (the pipelines decorate with backoff=2)
Backoffs == {2, 3}

\* What an invocation of the wrapped function does: it returns ("ok"), or
\* raises an exception of class cls; status is the response status of an
\* HTTPError (0: the error has no response).
Outcome(cls, status) == [cls |-> cls, status |-> status]

Outcomes ==
    { Outcome("ok", 0), Outcome("PyMongoError", 0), Outcome("ServiceUnavailable", 0),
      Outcome("OSError", 0), Outcome("ValueError", 0), Outcome("KeyError", 0),
      Outcome("HTTPError", 0), Outcome("HTTPError", 404), Outcome("HTTPError", 429),
      Outcome("HTTPError", 500), Outcome("HTTPError", 503) }

\* isinstance(exc, RETRYABLE_ERRORS), for the classes of Outcomes
RETRYABLE_ERRORS == {"PyMongoError", "ServiceUnavailable", "OSError", "HTTPError"}

\* Mutant of ServerError: the status is not looked at.
ServerError_any_status(o) == TRUE

\* exc.response is not None and 500 <= exc.response.status_code < 600
ServerError(o) == o.status # 0 /\ 500 <= o.status /\ o.status < 600

RECURSIVE Pow(_, _)
Pow(b, e) == IF e = 0 THEN 1 ELSE b * Pow(b, e - 1)

\* wrapper(*args, **kwargs) is entered
InitRetry ==
    /\ rt_pc = "loop"
    /\ rt_max_attempts \in 1..MaxAttempts
    /\ rt_backoff \in Backoffs
    /\ rt_attempt = 1 /\ rt_retry_count = 0
    /\ rt_outcomes = <<>> /\ rt_waits = <<>>
    /\ IdleExcept({"rt"})

\* one pass of the while loop
Invoke(o) ==
    /\ rt_pc = "loop"
    /\ Len(rt_outcomes) < MaxInvocations
    /\ rt_outcomes' = Append(rt_outcomes, o)
    /\ IF o.cls = "ok"
       THEN /\ rt_pc' = "returned"
            /\ UNCHANGED <<rt_attempt, rt_retry_count, rt_waits>>
       ELSE IF o.cls = "HTTPError"
       THEN \* except HTTPError: raise, or fall out of the handler to the loop
            /\ rt_pc' = IF ServerError(o) /\ rt_attempt < rt_max_attempts
                        THEN "loop" ELSE "raised"
            /\ UNCHANGED <<rt_attempt, rt_retry_count, rt_waits>>
       ELSE IF o.cls \in RETRYABLE_ERRORS
       THEN IF rt_attempt >= rt_max_attempts
            THEN /\ rt_pc' = "raised"
                 /\ UNCHANGED <<rt_attempt, rt_retry_count, rt_waits>>
            ELSE /\ rt_retry_count' = rt_retry_count + 1
                 /\ rt_waits' = Append(rt_waits, [calls |-> Len(rt_outcomes) + 1,
                                                  wait |-> Pow(rt_backoff, rt_attempt)])
                 /\ rt_attempt' = rt_attempt + 1
                 /\ rt_pc' = "loop"
       ELSE \* no except clause matches: the exception propagates
            /\ rt_pc' = "raised"
            /\ UNCHANGED <<rt_attempt, rt_retry_count, rt_waits>>
    /\ UNCHANGED <<rt_max_attempts, rt_backoff>>

NextRetry ==
    \/ (\E o \in Outcomes : Invoke(o) /\ Frame({"rt"}))

SpecRetry == InitRetry /\ [][NextRetry]_vars

\* the time.sleep calls made after k invocations and before the next one
WaitsAfter(k) == { i \in 1..Len(rt_waits) : rt_waits[i].calls = k }

\* C14: the wrapped function is invoked at most max_attempts times; exactly one
\* wait, of backoff^k, lies between the k-th invocation and the next; once the
\* max_attempts-th invocation has failed the fault is raised.
C14_RetryBounded ==
    /\ Len(rt_outcomes) <= rt_max_attempts
    /\ \A k \in 1..(Len(rt_outcomes) - 1) :
          \E i \in WaitsAfter(k) : WaitsAfter(k) = {i} /\ rt_waits[i].wait = Pow(rt_backoff, k)
    /\ (Len(rt_outcomes) >= rt_max_attempts /\ rt_outcomes[Len(rt_outcomes)].cls # "ok")
          => rt_pc = "raised"

\* a fault outside the retryable set, or an HTTP error with a 4xx status
NotRetryable(o) ==
    \/ o.cls \notin RETRYABLE_ERRORS \cup {"ok"}
    \/ o.cls = "HTTPError" /\ 400 <= o.status /\ o.status < 500

\* C15: an invocation that raised a fault outside the retryable set, or an HTTP
\* error with a 4xx status, is the last one: the wrapper has raised, with no
\* wait and no further invocation after it.
C15_NonRetryablePropagates ==
    \A k \in 1..Len(rt_outcomes) :
        NotRetryable(rt_outcomes[k]) =>
            /\ k = Len(rt_outcomes)
            /\ rt_pc = "raised"
            /\ WaitsAfter(k) = {}

\* C15 witness: the first invocation raised an HTTP error with a 4xx status
\* and the wrapper raised it at once.
C15_Witness ==
    /\ rt_pc = "raised"
    /\ Len(rt_outcomes) = 1 /\ rt_outcomes[1].cls = "HTTPError" /\ rt_outcomes[1].status = 404
    /\ rt_waits = <<>>

(***************************************************************************)
(* Sync state: utils/ops_mongo.py load_sync_state / update_sync_state and  *)
(* the two pipelines that write it, etl/load_mongo.py LoadMongoPipeline    *)
(* (key main_sync) and etl/load_aura.py AuraSyncPipeline (key auradb_sync).*)
(* Runs are processes of their own and interleave step by step.            *)
(***************************************************************************)
\* Bound of the model: the number of pipeline runs.
MaxRuns == 2

SyncKeys == {"main_sync", "auradb_sync"}

\* load_sync_state's value when no state is stored: datetime(2026, 1, 1)
DefaultSyncTime == 0

\* The collections (main_sync: the JSON files of the directory) or labels
\* (auradb_sync: the keys of the dict handed to load_nodes) a run writes.
Targets == <<"books", "genres">>

TargetIdx == 1..Len(Targets)

InitSyncState ==
    /\ ss_states = [k \in SyncKeys |-> DefaultSyncTime]
    /\ ss_clock = 0
    /\ ss_runs = <<>>
    /\ ss_writes = <<>>
    /\ IdleExcept({"ss"})

\* load_sync_state(etl_db, key)
load_sync_state(key) == ss_states[key]

\* __init__ of a pipeline: self.timestamp = now, self.lst = load_sync_state(...)
StartRun(key) ==
    /\ Len(ss_runs) < MaxRuns
    /\ ss_clock' = ss_clock + 1
    /\ ss_runs' = Append(ss_runs, [key |-> key, timestamp |-> ss_clock + 1,
                                   lst |-> load_sync_state(key), pc |-> "writing",
                                   todo |-> TargetIdx, failed |-> {}])
    /\ UNCHANGED <<ss_states, ss_writes>>

\* The target a run may write next.  load_all submits its collections to a
\* thread pool (any order); load_nodes iterates the labels in dict order.
NextTargets(run) ==
    IF run.key = "main_sync" THEN run.todo
    ELSE {c \in run.todo : \A d \in run.todo : c <= d}

\* upsert_collection(name, docs) / session.execute_write(upsert_nodes, label, rows):
\* the write succeeds, or it raises and the except clause around it logs the
\* error and goes on (upsert_collection returns stats, load_nodes continues
\* with the next label).
UpsertTarget(r, c, ok) ==
    /\ r \in 1..Len(ss_runs)
    /\ ss_runs[r].pc = "writing"
    /\ c \in NextTargets(ss_runs[r])
    /\ ss_runs' = [ss_runs EXCEPT ![r].todo = @ \ {c},
                                  ![r].failed = IF ok THEN @ ELSE @ \cup {c}]
    /\ UNCHANGED <<ss_states, ss_clock, ss_writes>>

\* A call outside those except clauses raises (opening the session, a
\* relationship write, batch_summaries.insert_one of load_all): the run ends
\* before it reaches update_sync_state.
RunRaises(r) ==
    /\ r \in 1..Len(ss_runs)
    /\ ss_runs[r].pc = "writing"
    /\ ss_runs' = [ss_runs EXCEPT ![r].pc = "raised"]
    /\ UNCHANGED <<ss_states, ss_clock, ss_writes>>

\* update_sync_state: update_one({"_id": key}, {"$set": {"last_sync_time": timestamp, ...}}, upsert=True)
update_sync_state(states, key, timestamp) == [states EXCEPT ![key] = timestamp]

\* the end of load_all / sync_all: update_sync_state(etl_db, key, self.timestamp, self.batch_id)
UpdateSyncState(r) ==
    /\ r \in 1..Len(ss_runs)
    /\ ss_runs[r].pc = "writing"
    /\ ss_runs[r].todo = {}
    /\ ss_states' = update_sync_state(ss_states, ss_runs[r].key, ss_runs[r].timestamp)
    /\ ss_writes' = Append(ss_writes, [run |-> r, key |-> ss_runs[r].key,
                                       old |-> ss_states[ss_runs[r].key],
                                       new |-> ss_states'[ss_runs[r].key]])
    /\ ss_runs' = [ss_runs EXCEPT ![r].pc = "done"]
    /\ UNCHANGED ss_clock

NextSyncState ==
    \/ (\E key \in SyncKeys : StartRun(key) /\ Frame({"ss"}))
    \/ (\E r \in 1..MaxRuns, c \in TargetIdx, ok \in BOOLEAN : UpsertTarget(r, c, ok) /\ Frame({"ss"}))
    \/ (\E r \in 1..MaxRuns : RunRaises(r) /\ Frame({"ss"}))
    \/ (\E r \in 1..MaxRuns : UpdateSyncState(r) /\ Frame({"ss"}))

SpecSyncState == InitSyncState /\ [][NextSyncState]_vars

\* C11: a run in which the upsert of a collection (load_all) or of a label
\* (sync_all) failed does not write the sync state: last_sync_time keeps its
\* previous value for that run.
C11_SyncStateOnlyAfterSuccess ==
    \A i \in 1..Len(ss_writes) : ss_runs[ss_writes[i].run].failed = {}

\* C16: no update_sync_state replaces a stored last_sync_time with an earlier
\* one.
C16_SyncTimeMonotonic ==
    \A i \in 1..Len(ss_writes) : ss_writes[i].new >= ss_writes[i].old

(***************************************************************************)
(* Deletion replay staging -> main: src/utils/ops_mongo.py sync_deletions. *)
(* The target store is the pair source (its collection collection_name;    *)
(* its other collections are empty) and deletions.                         *)
(***************************************************************************)
\* Bound of the model: the number of tombstones in the source store.
MaxTombstones == 3

\* datetime values, as their position on the time line
Times == << "t0", "t1", "t2", "t3", "t4", "t5", "t6" >>

TimeOf(t) == CHOOSE i \in 1..Len(Times) : Times[i] = t

StagingIds == << "s1", "s2", "s3", "s4" >>

\* A tombstone of the source store, as archive_delete writes it there; ""
\* for original_id or original_collection: the tombstone lacks that field.
Tombstone(k, original_id, original_collection, deleted_at) ==
    LET base == << <<"_id", StagingIds[k]>>, <<"name", "a">> >>
        with_id == IF original_id = "" THEN base
                   ELSE Append(base, <<"original_id", original_id>>)
        with_coll == IF original_collection = "" THEN with_id
                     ELSE Append(with_id, <<"original_collection", original_collection>>)
    IN Append(with_coll, <<"deleted_at", deleted_at>>)

\* the (original_id, original_collection, deleted_at) of the tombstones the
\* source store may hold
TombstoneFields ==
    { <<"o1", "genres", "t1">>, <<"o1", "genres", "t2">>, <<"o2", "genres", "t2">>,
      <<"o3", "genres", "t2">>, <<"o1", "formats", "t2">>,
      <<"", "genres", "t2">>, <<"o2", "", "t2">> }

Sinces == {"t0", "t1", "t2"}

InitSyncDeletions ==
    /\ source = SourceDocs /\ deletions = <<>> /\ ad_pc = "off" /\ ad_query = "none"
    /\ ad_doc = <<>> /\ ad_original_id = "none" /\ ad_result = <<>>
    /\ ad_faults = {} /\ ad_calls = 0
    /\ sd_pc = "fetch" /\ sd_staging = <<>> /\ sd_since \in Sinces /\ sd_fetched = <<>>
    /\ sd_i = 0 /\ sd_synced = 0 /\ sd_attempted = <<>> /\ sd_result = <<>>
    /\ IdleExcept({"ad", "sd"})

\* Before the call: archive_delete on the source store left a tombstone there.
StagingTombstone(f) ==
    /\ sd_pc = "fetch"
    /\ Len(sd_staging) < MaxTombstones
    /\ sd_staging' = Append(sd_staging, Tombstone(Len(sd_staging) + 1, f[1], f[2], f[3]))
    /\ UNCHANGED <<source, deletions, sd_pc, sd_since, sd_fetched, sd_i, sd_synced,
                   sd_attempted, sd_result>>

\* Mutant of DeletedSince: $gte in place of $gt.
DeletedSince_gte(doc, since) ==
    Has(doc, "deleted_at") /\ TimeOf(Get(doc, "deleted_at")) >= TimeOf(since)

\* the query {"deleted_at": {"$gt": since}}
DeletedSince(doc, since) ==
    Has(doc, "deleted_at") /\ TimeOf(Get(doc, "deleted_at")) > TimeOf(since)

\* deletions = list(staging_db["deletions"].find(query)); no deletions: return
FetchDeletions ==
    /\ sd_pc = "fetch"
    /\ sd_fetched' = SelectSeq(sd_staging, LAMBDA d : DeletedSince(d, sd_since))
    /\ IF sd_fetched' = <<>>
       THEN sd_pc' = "returned" /\ sd_result' = [synced |-> 0, error |-> FALSE] /\ sd_i' = 0
       ELSE sd_pc' = "loop" /\ sd_result' = sd_result /\ sd_i' = 1
    /\ UNCHANGED <<source, deletions, sd_staging, sd_since, sd_synced, sd_attempted>>

\* the find raises: the outer except returns {"synced": 0, "error": ...}
FetchDeletionsRaises ==
    /\ sd_pc = "fetch"
    /\ sd_pc' = "returned"
    /\ sd_result' = [synced |-> 0, error |-> TRUE]
    /\ UNCHANGED <<source, deletions, sd_staging, sd_since, sd_fetched, sd_i, sd_synced,
                   sd_attempted>>

\* archive_delete(db, name, {"_id": id}) as one step: the state of the store
\* after the call and the dict returned.  fault names the store call that
\* raises ("none": no store call raises); k numbers the ObjectId() and now().
archive_delete(coll, dels, name, id, k, fault) ==
    LET found == find_one(IF name = collection_name THEN coll ELSE {}, id)
        doc == Without(CHOOSE d \in found : TRUE, {"_id"})
        archived == Append(dels, archived_doc(doc, id, k))
    IN IF fault = "find"
       THEN [source |-> coll, deletions |-> dels, result |-> Result(FALSE, FALSE, "error")]
       ELSE IF found = {}
       THEN [source |-> coll, deletions |-> dels,
             result |-> Result(FALSE, FALSE, "Document not found")]
       ELSE IF fault = "insert"
       THEN [source |-> coll, deletions |-> dels, result |-> Result(FALSE, FALSE, "error")]
       ELSE IF ~Has(doc, "original_id") \/ fault = "delete"
       THEN [source |-> coll, deletions |-> archived, result |-> Result(FALSE, FALSE, "error")]
       ELSE LET hit == find_one(coll, Get(doc, "original_id"))
            IN [source |-> coll \ hit, deletions |-> archived,
                result |-> Result(Cardinality(hit) = 1, TRUE, "archived")]

\* if not original_id or not collection_name
Malformed(doc) == ~Has(doc, "original_id") \/ ~Has(doc, "original_collection")

\* one iteration of `for doc in deletions`, and the return after the last
SyncOne(fault) ==
    /\ sd_pc = "loop"
    /\ LET doc == sd_fetched[sd_i]
       IN IF Malformed(doc)
          THEN UNCHANGED <<source, deletions, sd_synced, sd_attempted>>
          ELSE LET r == archive_delete(source, deletions, Get(doc, "original_collection"),
                                       Get(doc, "original_id"), Len(deletions) + 1, fault)
               IN /\ source' = r.source
                  /\ deletions' = r.deletions
                  /\ sd_attempted' = Append(sd_attempted, sd_i)
                  /\ sd_synced' = IF r.result.deleted THEN sd_synced + 1 ELSE sd_synced
    /\ IF sd_i = Len(sd_fetched)
       THEN sd_pc' = "returned" /\ sd_result' = [synced |-> sd_synced', error |-> FALSE]
            /\ sd_i' = sd_i
       ELSE sd_pc' = "loop" /\ sd_result' = sd_result /\ sd_i' = sd_i + 1
    /\ UNCHANGED <<sd_staging, sd_since, sd_fetched>>

ad_locals == <<ad_pc, ad_query, ad_doc, ad_original_id, ad_result, ad_faults, ad_calls>>

NextSyncDeletions ==
    \/ (\E f \in TombstoneFields : StagingTombstone(f) /\ UNCHANGED ad_locals /\ Frame({"ad", "sd"}))
    \/ (FetchDeletions /\ UNCHANGED ad_locals /\ Frame({"ad", "sd"}))
    \/ (FetchDeletionsRaises /\ UNCHANGED ad_locals /\ Frame({"ad", "sd"}))
    \/ (\E fault \in {"none", "find", "insert"} : SyncOne(fault) /\ UNCHANGED ad_locals /\ Frame({"ad", "sd"}))

SpecSyncDeletions == InitSyncDeletions /\ [][NextSyncDeletions]_vars

\* the indexes of the source tombstones dated strictly after since that carry
\* both original_id and original_collection, in store order
Eligible ==
    { i \in 1..Len(sd_staging) :
        /\ Has(sd_staging[i], "deleted_at")
        /\ TimeOf(Get(sd_staging[i], "deleted_at")) > TimeOf(sd_since)
        /\ Has(sd_staging[i], "original_id")
        /\ Has(sd_staging[i], "original_collection") }

\* the source tombstones for which archive_delete was called
AttemptedDocs == [j \in 1..Len(sd_attempted) |-> sd_fetched[sd_attempted[j]]]

\* the documents of the target collection that are gone
ActuallyDeleted == SourceDocs \ source

\* C13: archive_delete is called on the target store once for each source
\* tombstone dated strictly after since that carries both fields, and for no
\* other (malformed tombstones and failed deletions do not stop the loop);
\* the call returns a dict, and its synced count is the number of documents
\* actually deleted from the target.
C13_SyncDeletionsExactlyEligible ==
    /\ \A j \in 1..Len(sd_attempted) : \E i \in Eligible : sd_staging[i] = AttemptedDocs[j]
    /\ Len(sd_attempted) <= Cardinality(Eligible)
    /\ sd_pc = "returned" =>
          /\ sd_result.synced = Cardinality(ActuallyDeleted)
          /\ ~sd_result.error =>
                /\ Len(sd_attempted) = Cardinality(Eligible)
                /\ \A i \in Eligible : \E j \in 1..Len(sd_attempted) : sd_staging[i] = AttemptedDocs[j]

\* C13 witness: the call returned after it skipped a malformed tombstone and
\* went on to the next tombstone after a deletion that failed.
C13_Witness ==
    /\ sd_pc = "returned" /\ ~sd_result.error
    /\ Len(sd_attempted) = 2
    /\ Cardinality(Eligible) = 2
    /\ \E i \in 1..Len(sd_fetched) : Malformed(sd_fetched[i]) /\ i < sd_attempted[2]
    /\ Len(deletions) >= 1

(***************************************************************************)
(* Reading aggregates: etl/transform_main2aura.py extract,                 *)
(* utils/ops_mongo.py fetch_documents, utils/transform_for_aura.py         *)
(* process_ur.  Timestamps are positions on the time line.  The averages   *)
(* of an aggregate (rating, days to read, read rate) are not modelled.     *)
(***************************************************************************)
\* Bound of the model: the number of user_reads entries in the main store.
MaxEntries == 2

\* the times of the load runs that stored the entries (updated_at)
UpdateTimes == {1, 2}

\* the values of last_sync_time
LastSyncTimes == {0, 1}

\* sets iterate in no particular order; the model fixes one
UserOrder == << "u1", "u2" >>

VersionOrder == << "v1", "v2" >>

\* the (user_id, version_id) of the stored entries
EntryPairs == { <<"u1", "v1">>, <<"u1", "v2">>, <<"u2", "v1">> }

Log(rstatus, timestamp) == [rstatus |-> rstatus, timestamp |-> timestamp]

\* The reading logs of the stored entries.  rstatus is the name the lookup
\* of read_statuses gives, "None" when the lookup finds nothing.
ReadingLogs ==
    { <<>>,
      << Log("Reading", 1), Log("Read", 1) >>,
      << Log("Read", 1), Log("Reading", 1) >>,
      << Log("Paused", 2) >>,
      << Log("DNF", 2), Log("None", 2) >>,
      << Log("To Read", 2), Log("DNF", 2) >> }

InitAggregate ==
    /\ ur_pc = "store" /\ ur_main = <<>> /\ ur_lst \in LastSyncTimes
    /\ ur_fetched = <<>> /\ ur_agg = <<>>
    /\ IdleExcept({"ur"})

\* load_mongo upserts an entry into main, updated_at = the run's timestamp
StoreEntry(p, log, t) ==
    /\ ur_pc = "store"
    /\ Len(ur_main) < MaxEntries
    /\ ur_main' = Append(ur_main, [user_id |-> p[1], version_id |-> p[2],
                                   reading_log |-> log, updated_at |-> t])
    /\ UNCHANGED <<ur_pc, ur_lst, ur_fetched, ur_agg>>

\* Mutant of priority: Read is left out of the table.
priority_without_read(s) ==
    CASE s = "Reading" -> 2 [] s = "Paused" -> 1 [] s = "To Read" -> 0 [] OTHER -> -1

\* priority.get(rstatus, -1)
priority(s) ==
    CASE s = "Read" -> 3 [] s = "Reading" -> 2 [] s = "Paused" -> 1 [] s = "To Read" -> 0
      [] OTHER -> -1

\* (timestamp, priority) of a is less than that of b, as Python compares tuples
KeyLess(a, b) ==
    \/ a.timestamp < b.timestamp
    \/ a.timestamp = b.timestamp /\ priority(a.rstatus) < priority(b.rstatus)

\* max(logs, key=...): the first item whose key no other item exceeds
MaxLog(logs) ==
    logs[CHOOSE i \in 1..Len(logs) :
            /\ \A j \in 1..Len(logs) : ~KeyLess(logs[i], logs[j])
            /\ \A j \in 1..(i - 1) : KeyLess(logs[j], logs[i])]

\* max(events, key=timestamp)["timestamp"], or None (0) for no events
MaxTimestamp(events) ==
    IF events = <<>> THEN 0
    ELSE CHOOSE t \in {events[i].timestamp : i \in 1..Len(events)} :
            \A i \in 1..Len(events) : events[i].timestamp <= t

\* logs.extend(e["reading_log"]) over the entries
RECURSIVE FlattenLogs(_)
FlattenLogs(entries) ==
    IF entries = <<>> THEN <<>>
    ELSE Head(entries).reading_log \o FlattenLogs(Tail(entries))

\* process_ur, body of the loops for one pair with entries
Aggregate(u_id, v_id, entries) ==
    LET logs == FlattenLogs(entries)
        read_events == SelectSeq(logs, LAMBDA l : l.rstatus = "Read")
        reading_events == SelectSeq(logs, LAMBDA l : l.rstatus = "Reading")
    IN [user_id |-> u_id, version_id |-> v_id,
        most_recent_rstatus |-> IF logs # <<>> THEN MaxLog(logs).rstatus ELSE "To Read",
        most_recent_start |-> IF logs # <<>> THEN MaxTimestamp(reading_events) ELSE 0,
        most_recent_read |-> IF logs # <<>> THEN MaxTimestamp(read_events) ELSE 0,
        read_count |-> IF logs # <<>> THEN Len(read_events) ELSE 0]

EntriesOf(user_reads, u_id, v_id) ==
    SelectSeq(user_reads, LAMBDA e : e.user_id = u_id /\ e.version_id = v_id)

\* process_ur: for u_id in user_ids: for v_id in version_ids: ...
RECURSIVE process_ur_from(_, _, _)
process_ur_from(user_reads, ui, vi) ==
    IF ui > Len(UserOrder) THEN <<>>
    ELSE IF vi > Len(VersionOrder) THEN process_ur_from(user_reads, ui + 1, 1)
    ELSE LET entries == EntriesOf(user_reads, UserOrder[ui], VersionOrder[vi])
         IN (IF entries = <<>> THEN <<>>
             ELSE << Aggregate(UserOrder[ui], VersionOrder[vi], entries) >>)
            \o process_ur_from(user_reads, ui, vi + 1)

process_ur(user_reads) == process_ur_from(user_reads, 1, 1)

\* fetch_documents(collection, since=lst): query updated_at $gt since
fetch_documents(collection, since) == SelectSeq(collection, LAMBDA d : d.updated_at > since)

\* AuraTransformPipeline.extract, for the user_reads collection: fetch since
\* last_sync_time, exit with 10 when nothing was fetched, else transform
Extract ==
    /\ ur_pc = "store"
    /\ ur_fetched' = fetch_documents(ur_main, ur_lst)
    /\ IF ur_fetched' = <<>>
       THEN ur_pc' = "exit10" /\ ur_agg' = <<>>
       ELSE ur_pc' = "done" /\ ur_agg' = process_ur(ur_fetched')
    /\ UNCHANGED <<ur_main, ur_lst>>

NextAggregate ==
    \/ (\E p \in EntryPairs, log \in ReadingLogs, t \in UpdateTimes : StoreEntry(p, log, t) /\ Frame({"ur"}))
    \/ (Extract /\ Frame({"ur"}))

SpecAggregate == InitAggregate /\ [][NextAggregate]_vars

AggIdx == 1..Len(ur_agg)

\* C19: the aggregate written for a pair is the aggregate of every entry the
\* main store holds for the pair.
C19_AggregateFromAllEntries ==
    \A a \in AggIdx :
        ur_agg[a] = Aggregate(ur_agg[a].user_id, ur_agg[a].version_id,
                              EntriesOf(ur_main, ur_agg[a].user_id, ur_agg[a].version_id))

\* the log items of the pair's entries handed to process_ur
PairLogs(u_id, v_id) ==
    LET es == { ur_fetched[k] : k \in { i \in 1..Len(ur_fetched) :
                    ur_fetched[i].user_id = u_id /\ ur_fetched[i].version_id = v_id } }
    IN UNION { {e.reading_log[i] : i \in 1..Len(e.reading_log)} : e \in es }

\* Read > Reading > Paused > To Read, every other status below them
Rank(s) == CASE s = "Read" -> 4 [] s = "Reading" -> 3 [] s = "Paused" -> 2 [] s = "To Read" -> 1
             [] OTHER -> 0

\* l is maximal among ls under the lexicographic order (timestamp, Rank)
Maximal(l, ls) ==
    \A m \in ls : m.timestamp < l.timestamp
                  \/ (m.timestamp = l.timestamp /\ Rank(m.rstatus) <= Rank(l.rstatus))

\* C20: process_ur returns one aggregate for each pair that has an entry and
\* none for the other pairs; its most recent status is the status of a log
\* item of the pair that is maximal under (timestamp, status priority); a pair
\* whose entries have no log items gets To Read with read_count 0.
C20_OneAggregatePerPair ==
    ur_pc = "done" =>
        /\ \A k \in 1..Len(ur_fetched) :
              \E a \in AggIdx : /\ ur_agg[a].user_id = ur_fetched[k].user_id
                                /\ ur_agg[a].version_id = ur_fetched[k].version_id
        /\ \A a, b \in AggIdx :
              (ur_agg[a].user_id = ur_agg[b].user_id /\ ur_agg[a].version_id = ur_agg[b].version_id)
                  => a = b
        /\ \A a \in AggIdx :
              LET ls == PairLogs(ur_agg[a].user_id, ur_agg[a].version_id)
              IN /\ \E k \in 1..Len(ur_fetched) : /\ ur_agg[a].user_id = ur_fetched[k].user_id
                                                  /\ ur_agg[a].version_id = ur_fetched[k].version_id
                 /\ ls # {} => \E l \in ls : Maximal(l, ls) /\ l.rstatus = ur_agg[a].most_recent_rstatus
                 /\ ls = {} => ur_agg[a].most_recent_rstatus = "To Read" /\ ur_agg[a].read_count = 0

\* C20 witness: a pair whose log has Reading and Read at the same timestamp
\* got Read, next to a pair without log items that got To Read.
C20_Witness ==
    /\ ur_pc = "done"
    /\ \E a, b \in AggIdx :
          /\ PairLogs(ur_agg[a].user_id, ur_agg[a].version_id) = {Log("Reading", 1), Log("Read", 1)}
          /\ ur_agg[a].most_recent_rstatus = "Read"
          /\ PairLogs(ur_agg[b].user_id, ur_agg[b].version_id) = {}
          /\ ur_agg[b].most_recent_rstatus = "To Read" /\ ur_agg[b].read_count = 0

(***************************************************************************)
(* Graph store: src/utils/ops_aura.py.  A Cypher query is one step; its    *)
(* clauses act in order, each on the rows the clause before it produced.   *)
(* A node is a record: label, id (the property _id), name, and fk, the     *)
(* list held by the foreign-key property (<<>>: the property is null).     *)
(***************************************************************************)
\* Bound of the model: the length of a foreign-key list.
MaxList == 2

Node(label, id, name, fk) == [label |-> label, id |-> id, name |-> name, fk |-> fk]

GenreNames == {"A", "B"}

\* the lists over GenreNames of length at most n
RECURSIVE Lists(_)
Lists(n) ==
    IF n = 0 THEN {<<>>}
    ELSE Lists(n - 1) \cup {Append(l, g) : l \in {k \in Lists(n - 1) : Len(k) = n - 1}, g \in GenreNames}

\* the rows of the staged files books.json and genres.json
BookRows == {Node("Book", b, "", fk) : b \in {"b1", "b2"}, fk \in Lists(MaxList)}

GenreRows == {Node("Genre", "o1", "A", <<>>), Node("Genre", "o2", "B", <<>>)}

\* get_relationships: ({"labels": ["Book", "Genre"], "props": ["genre", "name"]}, "HAS_GENRE", data["books"])
HasGenre == [labels |-> <<"Book", "Genre">>, props |-> <<"fk", "name">>, rel |-> "HAS_GENRE"]

\* A graph operation that ran: its name, its arguments, and the edges that
\* were in the graph before it and are not after it.
Op(op, args, dropped) == [op |-> op, args |-> args, dropped |-> dropped]

InitRelationships ==
    /\ g_nodes = {} /\ g_edges = EmptyBag /\ g_last = Op("none", {}, {}) /\ g_since = "none"
    /\ IdleExcept({"g"})

\* upsert_nodes for one row: MERGE (n:label {_id: row._id}) SET n += row
upsert_node(nodes, row) ==
    {n \in nodes : ~(n.label = row.label /\ n.id = row.id)} \cup {row}

UpsertNode(row) ==
    /\ g_nodes' = upsert_node(g_nodes, row)
    /\ g_last' = Op("upsert_nodes", {row.id}, {})
    /\ UNCHANGED <<g_edges, g_since>>

\* the bag b without the elements of the set s
BagWithout(b, s) == [e \in BagToSet(b) \ s |-> b[e]]

\* number of edges of the set s in the bag b
RECURSIVE CopiesOf(_, _)
CopiesOf(b, s) ==
    IF s = {} THEN 0
    ELSE LET e == CHOOSE x \in s : TRUE IN CopiesIn(e, b) + CopiesOf(b, s \ {e})

\* number of times v occurs in the list l
Occurrences(l, v) == Len(SelectSeq(l, LAMBDA x : x = v))

\* Mutant of merge: CREATE in place of MERGE, one edge per row.
merge_as_create(edges, rows) == edges (+) rows

\* MERGE (source)-[:rel]->(target) over the rows (a bag of edges, one copy per
\* row): an edge is created for a row unless one is there already
merge(edges, rows) == edges (+) SetToBag({e \in BagToSet(rows) : ~BagIn(e, edges)})

\* the query of create_relationships
create_relationships(nodes, edges, rel_map, ids) ==
    LET \* MATCH (source:label) WHERE source._id IN $ids
        sources == {n \in nodes : n.label = rel_map.labels[1] /\ n.id \in ids}
        \* OPTIONAL MATCH (source)-[old_rel:rel]->(): a row per old edge, or one row
        old(s) == {e \in BagToSet(edges) : e[1] = s.id /\ e[2] = rel_map.rel}
        rows_of(s) == IF old(s) = {} THEN 1 ELSE CopiesOf(edges, old(s))
        \* DELETE old_rel
        pruned == BagWithout(edges, UNION {old(s) : s \in sources})
        \* WITH source WHERE source.prop IS NOT NULL UNWIND source.prop AS value
        \* MATCH (target:label {prop: value})
        matches == { <<s, t>> \in sources \X nodes :
                        /\ t.label = rel_map.labels[2]
                        /\ Occurrences(s[rel_map.props[1]], t[rel_map.props[2]]) > 0 }
        row_edges == { <<m[1].id, rel_map.rel, m[2].id>> : m \in matches }
        row_count(e) ==
            LET m == CHOOSE x \in matches : x[1].id = e[1] /\ x[2].id = e[3]
            IN rows_of(m[1]) * Occurrences(m[1][rel_map.props[1]], m[2][rel_map.props[2]])
    IN merge(pruned, [e \in row_edges |-> row_count(e)])

\* create_relationships(tx, rel_map, rel, source_docs); no source ids: return
CreateRelationships(rel_map, ids) ==
    /\ g_edges' = IF ids = {} THEN g_edges
                  ELSE create_relationships(g_nodes, g_edges, rel_map, ids)
    /\ g_last' = Op("create_relationships", ids, BagToSet(g_edges) \ BagToSet(g_edges'))
    /\ UNCHANGED <<g_nodes, g_since>>

NextRelationships ==
    \/ (\E row \in BookRows \cup GenreRows : UpsertNode(row) /\ Frame({"g"}))
    \/ (\E ids \in SUBSET {"b1", "b2"} : CreateRelationships(HasGenre, ids) /\ Frame({"g"}))

SpecRelationships == InitRelationships /\ [][NextRelationships]_vars

\* the edges of type rel that leave the node with id s, as a bag
OutEdges(s, rel) ==
    [e \in {x \in BagToSet(g_edges) : x[1] = s /\ x[2] = rel} |-> g_edges[e]]

\* one edge to each existing target whose key is a value of the source's list
ExpectedEdges(s, rel_map) ==
    SetToBag({ <<s.id, rel_map.rel, t.id>> : t \in
                 { n \in g_nodes : /\ n.label = rel_map.labels[2]
                                   /\ \E i \in 1..Len(s.fk) : s.fk[i] = n.name } })

\* C17: after create_relationships ran for a batch, the HAS_GENRE edges that
\* leave a book of the batch are one edge to each existing genre named in the
\* book's genre list: none left from an earlier list, none twice.
C17_EdgesMatchForeignKeys ==
    g_last.op = "create_relationships" =>
        \A s \in g_nodes :
            (s.label = "Book" /\ s.id \in g_last.args) =>
                OutEdges(s.id, "HAS_GENRE") = ExpectedEdges(s, HasGenre)

\* C17 witness: book b1 had edges to A and B, its list shrank to [A], and
\* create_relationships left it exactly one edge, to A.
C17_Witness ==
    /\ g_last.op = "create_relationships" /\ "b1" \in g_last.args
    /\ Node("Book", "b1", "", <<"A">>) \in g_nodes
    /\ GenreRows \subseteq g_nodes
    /\ g_last.dropped = {<<"b1", "HAS_GENRE", "o2">>}
    /\ OutEdges("b1", "HAS_GENRE") = SetToBag({<<"b1", "HAS_GENRE", "o1">>})

(***************************************************************************)
(* Reading-status edges: src/utils/ops_aura.py user_reads_relationships.   *)
(***************************************************************************)
\* rel_map of user_reads_relationships; <<>>: rel_map.get gives None
status_rel(rstatus) ==
    CASE rstatus = "DNF" -> <<"DID_NOT_FINISH">>
      [] rstatus = "Read" -> <<"HAS_READ">>
      [] rstatus = "Paused" -> <<"HAS_PAUSED">>
      [] rstatus = "Reading" -> <<"IS_READING">>
      [] rstatus = "To Read" -> <<"WANTS_TO_READ">>
      [] OTHER -> <<>>

StatusRels == {"DID_NOT_FINISH", "HAS_READ", "HAS_PAUSED", "IS_READING", "WANTS_TO_READ"}

\* Mutant of CleanupRels: IS_READING is missing from the pattern.
CleanupRels_without_is_reading == StatusRels \ {"IS_READING"}

\* the relationship types of the pattern of cleanup_query
CleanupRels == StatusRels

\* the values of most_recent_rstatus: the status of a log item ("None": the
\* lookup of read_statuses found nothing), or To Read
Statuses == {"Read", "Reading", "To Read", "DNF", "None"}

UserRows == {Node("User", "u1", "", <<>>), Node("User", "u2", "", <<>>)}

VersionRows == {Node("BookVersion", "v1", "", <<>>)}

\* The batches of aggregates: process_ur gives one aggregate per pair.
Batches ==
    LET pairs == {<<"u1", "v1">>, <<"u2", "v1">>}
    IN UNION { [ps -> Statuses] : ps \in SUBSET pairs }

InitUserReads ==
    /\ g_nodes = {} /\ g_edges = EmptyBag /\ g_last = Op("none", {}, {}) /\ g_since = "none"
    /\ IdleExcept({"g"})

\* the two queries of user_reads_relationships over the batch (a function
\* from the pairs of the batch to their most_recent_rstatus)
user_reads_relationships(nodes, edges, batch) ==
    LET \* rows: the documents whose status rel_map maps
        rows == {p \in DOMAIN batch : status_rel(batch[p]) # <<>>}
        \* MATCH (u:User {_id: row.user_id})-[r:DID_NOT_FINISH|...]->(b:BookVersion {_id: row.version_id}) DELETE r
        old == { e \in BagToSet(edges) :
                    /\ e[2] \in CleanupRels
                    /\ <<e[1], e[3]>> \in rows
                    /\ Node("User", e[1], "", <<>>) \in nodes
                    /\ Node("BookVersion", e[3], "", <<>>) \in nodes }
        \* MATCH (u:User ...) MATCH (b:BookVersion ...) CALL apoc.merge.relationship(u, row.rel_type, {}, {}, b)
        merged == { <<p[1], status_rel(batch[p])[1], p[2]>> : p \in
                      { q \in rows : /\ Node("User", q[1], "", <<>>) \in nodes
                                     /\ Node("BookVersion", q[2], "", <<>>) \in nodes } }
    IN merge(BagWithout(edges, old), SetToBag(merged))

UserReadsRelationships(batch) ==
    /\ g_edges' = user_reads_relationships(g_nodes, g_edges, batch)
    /\ g_last' = Op("user_reads_relationships", batch, BagToSet(g_edges) \ BagToSet(g_edges'))
    /\ UNCHANGED <<g_nodes, g_since>>

NextUserReads ==
    \/ (\E row \in UserRows \cup VersionRows : UpsertNode(row) /\ Frame({"g"}))
    \/ (\E batch \in Batches : UserReadsRelationships(batch) /\ Frame({"g"}))

SpecUserReads == InitUserReads /\ [][NextUserReads]_vars

\* the reading-status edges from user u to book version v, as a bag
StatusEdges(u, v) ==
    [e \in {x \in BagToSet(g_edges) : x[1] = u /\ x[3] = v /\ x[2] \in StatusRels} |-> g_edges[e]]

collection_label(name) ==
    CASE name = "books" -> <<"Book">>
      [] name = "genres" -> <<"Genre">>
      [] name = "users" -> <<"User">>
      [] OTHER -> <<>>

\* the (original_id, original_collection, deleted_at) of the tombstones the
\* main store may hold
MainTombstoneFields ==
    { <<"o1", "genres", "t1">>, <<"o1", "genres", "t2">>, <<"o2", "genres", "t2">>,
      <<"b1", "books", "t2">>, <<"o1", "user_reads", "t2">>,
      <<"", "genres", "t2">>, <<"o2", "", "t2">> }

\* The graph a sync of book b1 with genres A and B leaves, and any since.
InitGraphDeletions ==
    /\ g_nodes = {Node("Book", "b1", "", <<"A", "B">>)} \cup GenreRows
    /\ g_edges = SetToBag({<<"b1", "HAS_GENRE", "o1">>, <<"b1", "HAS_GENRE", "o2">>})
    /\ g_last = Op("none", {}, {})
    /\ g_since \in Sinces
    /\ source = {} /\ deletions = <<>> /\ ad_pc = "off" /\ ad_query = "none"
    /\ ad_doc = <<>> /\ ad_original_id = "none" /\ ad_result = <<>>
    /\ ad_faults = {} /\ ad_calls = 0
    /\ IdleExcept({"g", "ad"})

\* Before the call: archive_delete on the main store left a tombstone there.
MainTombstone(f) ==
    /\ g_last.op = "none"
    /\ Len(deletions) < MaxTombstones
    /\ deletions' = Append(deletions, Tombstone(Len(deletions) + 1, f[1], f[2], f[3]))
    /\ UNCHANGED <<source, g_nodes, g_edges, g_last, g_since>>

\* label_groups[label].append(str(doc["_id"])) over the fetched tombstones:
\* the ids collected under label
label_group(fetched, label) ==
    { Get(fetched[i], "_id") : i \in
        { k \in 1..Len(fetched) :
            /\ ~Malformed(fetched[k])
            /\ collection_label(Get(fetched[k], "original_collection")) = <<label>> } }

\* MATCH (n:label) WHERE n._id IN $ids DETACH DELETE n, for every label group
detach_delete(nodes, edges, fetched) ==
    LET gone == {n \in nodes : n.id \in label_group(fetched, n.label)}
        ids == {n.id : n \in gone}
    IN [nodes |-> nodes \ gone,
        edges |-> BagWithout(edges, {e \in BagToSet(edges) : e[1] \in ids \/ e[3] \in ids})]

\* sync_deletions(driver, db, since) without a fault of the graph store
GraphSyncDeletions ==
    /\ g_last.op = "none"
    /\ LET fetched == SelectSeq(deletions, LAMBDA d : DeletedSince(d, g_since))
           r == detach_delete(g_nodes, g_edges, fetched)
       IN /\ g_nodes' = r.nodes
          /\ g_edges' = r.edges
          /\ g_last' = Op("sync_deletions", {}, BagToSet(g_edges) \ BagToSet(r.edges))
    /\ UNCHANGED <<source, deletions, g_since>>

\* session.run raises: the except clause logs the failure and re-raises
GraphSyncDeletionsRaises ==
    /\ g_last.op = "none"
    /\ \E i \in 1..Len(deletions) : DeletedSince(deletions[i], g_since)
    /\ g_last' = Op("sync_deletions_raised", {}, {})
    /\ UNCHANGED <<source, deletions, g_nodes, g_edges, g_since>>

NextGraphDeletions ==
    \/ (\E f \in MainTombstoneFields : MainTombstone(f) /\ UNCHANGED ad_locals /\ Frame({"g", "ad"}))
    \/ (GraphSyncDeletions /\ UNCHANGED ad_locals /\ Frame({"g", "ad"}))
    \/ (GraphSyncDeletionsRaises /\ UNCHANGED ad_locals /\ Frame({"g", "ad"}))

SpecGraphDeletions == InitGraphDeletions /\ [][NextGraphDeletions]_vars

\* C12: after sync_deletions ran, for every tombstone dated after since whose
\* original_collection maps to a label, the graph has no node of that label
\* whose _id is the tombstone's original_id, and no edge at such a node.
C12_GraphNodesRemoved ==
    g_last.op = "sync_deletions" =>
        \A i \in 1..Len(deletions) :
            LET d == deletions[i] IN
            (/\ DeletedSince(d, g_since)
             /\ ~Malformed(d)
             /\ collection_label(Get(d, "original_collection")) # <<>>) =>
                /\ \A n \in g_nodes :
                      ~(<<n.label>> = collection_label(Get(d, "original_collection"))
                        /\ n.id = Get(d, "original_id"))
                /\ \A e \in BagToSet(g_edges) :
                      e[1] # Get(d, "original_id") /\ e[3] # Get(d, "original_id")

(***************************************************************************)
(* The averages of process_ur (src/utils/transform_for_aura.py lines       *)
(* 171-184) over the entries of one (user, version) pair.  A measure of an *)
(* entry is <<>> when its key is missing or its value is None, and <<n>>   *)
(* when it is the number n.  An average is None or the quotient            *)
(* sum / len, kept as the record [sum, len].                               *)
(***************************************************************************)
MaxReads == 2

None == <<>>

\* the values of an entry's rating, days_to_read, pages_per_day, hours_per_day
Ratings == {None, <<0>>, <<4>>}

DaysToRead == {None, <<0>>, <<3>>}

PagesPerDay == {None, <<0>>, <<30>>}

HoursPerDay == {None, <<2>>}

ReadEntry(rating, days_to_read, pages_per_day, hours_per_day) ==
    [rating |-> rating, days_to_read |-> days_to_read,
     pages_per_day |-> pages_per_day, hours_per_day |-> hours_per_day]

InitAverages ==
    /\ av_entries = <<>> /\ av_result = <<>>
    /\ IdleExcept({"av"})

\* Before the call: one more entry of the pair is in the input.
AddEntry(e) ==
    /\ av_result = <<>>
    /\ Len(av_entries) < MaxReads
    /\ av_entries' = Append(av_entries, e)
    /\ UNCHANGED av_result

\* Python truthiness of a number or None
Truthy(v) == v # None /\ v # <<0>>

\* if e.get("rating") is not None
RatingCounts(v) == v # None

RECURSIVE Sum(_)
Sum(l) == IF l = <<>> THEN 0 ELSE l[1][1] + Sum(Tail(l))

\* sum(values) / len(values) if values else None
Average(values) == IF values = <<>> THEN None ELSE [sum |-> Sum(values), len |-> Len(values)]

\* ratings = [e.get("rating") for e in entries if e.get("rating") is not None]
ratings(entries) ==
    LET kept == SelectSeq(entries, LAMBDA e : RatingCounts(e.rating))
    IN [i \in 1..Len(kept) |-> kept[i].rating]

\* d2r = [e.get("days_to_read") for e in entries if e.get("days_to_read")]
d2r(entries) ==
    LET kept == SelectSeq(entries, LAMBDA e : Truthy(e.days_to_read))
    IN [i \in 1..Len(kept) |-> kept[i].days_to_read]

\* the loop that fills rates: pages_per_day when truthy, else hours_per_day
\* when truthy, else nothing
rates(entries) ==
    LET kept == SelectSeq(entries, LAMBDA e : Truthy(e.pages_per_day) \/ Truthy(e.hours_per_day))
    IN [i \in 1..Len(kept) |->
          IF Truthy(kept[i].pages_per_day) THEN kept[i].pages_per_day
                                           ELSE kept[i].hours_per_day]

\* process_ur for a pair with entries: the three averages of its aggregate
Averages(entries) ==
    [avg_rating |-> Average(ratings(entries)),
     avg_days_to_read |-> Average(d2r(entries)),
     avg_read_rate |-> Average(rates(entries))]

ProcessUr ==
    /\ av_result = <<>>
    /\ av_entries # <<>>
    /\ av_result' = Averages(av_entries)
    /\ UNCHANGED av_entries

NextAverages ==
    \/ (\E r \in Ratings, d \in DaysToRead, p \in PagesPerDay, h \in HoursPerDay :
            AddEntry(ReadEntry(r, d, p, h)) /\ Frame({"av"}))
    \/ (ProcessUr /\ Frame({"av"}))

SpecAverages == InitAverages /\ [][NextAverages]_vars

\* the average of the values of the entries whose value is present and
\* non-zero, None when there is none
AverageOfPresentNonZero(values) == Average(SelectSeq(values, Truthy))

\* the read rate of an entry: pages_per_day, or hours_per_day when that one
\* is missing or zero
ReadRate(e) == IF Truthy(e.pages_per_day) THEN e.pages_per_day ELSE e.hours_per_day

\* C21: each average process_ur computes for a pair is the average over the
\* entries whose value of the measure is present and non-zero, and is None
\* when no entry has one.
C21_AveragesSkipMissingAndZero ==
    av_result # <<>> =>
        /\ av_result.avg_rating =
              AverageOfPresentNonZero([i \in 1..Len(av_entries) |-> av_entries[i].rating])
        /\ av_result.avg_days_to_read =
              AverageOfPresentNonZero([i \in 1..Len(av_entries) |-> av_entries[i].days_to_read])
        /\ av_result.avg_read_rate =
              AverageOfPresentNonZero([i \in 1..Len(av_entries) |-> ReadRate(av_entries[i])])

(***************************************************************************)
(* Subdocument decoding: src/utils/parsers.py make_subdocuments with the   *)
(* user_badges entry of the registry of src/utils/transform_for_main.py    *)
(* build_registries.  A string is a sequence of characters of Alphabet:    *)
(* "b" stands for the literal "badge:" of the pattern, "t" for the         *)
(* ", timestamp: YYYY-MM-DD" that ends it, "A" and "Z" are characters of   *)
(* badge names, "|" is the separator of the call sites.                    *)
(***************************************************************************)
MaxChars == 5

Alphabet == {" ", "|", "b", "t", "A", "Z"}

separator == "|"

FieldKeys == {"user_badges", "unknown_field"}

\* lookup_map["user_badges"]: the badge named A is the only stored one
user_badges_lookup == [name \in {<<"A">>} |-> <<<<"_id", "bA">>, <<"name", "A">>>>]

InitSubdocuments ==
    /\ ms_string = <<>> /\ ms_field_key \in FieldKeys /\ ms_result = <<>>
    /\ IdleExcept({"ms"})

\* Before the call: the cell of the sheet holds one more character.
TypeChar(c) ==
    /\ ms_result = <<>>
    /\ Len(ms_string) < MaxChars
    /\ ms_string' = Append(ms_string, c)
    /\ UNCHANGED <<ms_field_key, ms_result>>

\* string.split(separator): the pieces between the separators, empty ones included
RECURSIVE split(_, _)
split(string, sep) ==
    IF \A i \in 1..Len(string) : string[i] # sep
    THEN <<string>>
    ELSE LET i == CHOOSE k \in 1..Len(string) :
                    string[k] = sep /\ \A j \in 1..(k - 1) : string[j] # sep
         IN <<SubSeq(string, 1, i - 1)>> \o split(SubSeq(string, i + 1, Len(string)), sep)

\* entry.strip()
RECURSIVE strip(_)
strip(entry) ==
    IF entry = <<>> THEN entry
    ELSE IF entry[1] = " " THEN strip(Tail(entry))
    ELSE IF entry[Len(entry)] = " " THEN strip(SubSeq(entry, 1, Len(entry) - 1))
    ELSE entry

\* entries = [entry.strip() for entry in string.split(separator) if entry.strip()]
entries_of(string, sep) ==
    LET pieces == split(string, sep)
        stripped == [i \in 1..Len(pieces) |-> strip(pieces[i])]
    IN SelectSeq(stripped, LAMBDA e : e # <<>>)

\* the number of whitespace characters that follow the first character
LeadingSpaces(entry) ==
    LET n == Len(entry) IN
    IF \A i \in 2..n : entry[i] = " " THEN n - 1
    ELSE (CHOOSE i \in 2..n : entry[i] # " " /\ \A j \in 2..(i - 1) : entry[j] = " ") - 2

\* The ways r"badge:\s*(.+?),\s*timestamp:\s*(\d{4}-\d{2}-\d{2})" matches at the
\* start of entry: <<k, j>> where \s* takes k characters and the closing part
\* is at position j, the group (.+?) in between being non-empty.
Matches(entry) ==
    IF entry = <<>> \/ entry[1] # "b" THEN {}
    ELSE { m \in (0..LeadingSpaces(entry)) \X (1..Len(entry)) :
              entry[m[2]] = "t" /\ m[2] >= m[1] + 3 }

\* pattern.match(entry): <<>> when there is no match, else <<group(1)>>, the
\* match the backtracking search finds first: \s* greedy, (.+?) lazy
pattern_match(entry) ==
    LET ms == Matches(entry) IN
    IF ms = {} THEN <<>>
    ELSE LET k == CHOOSE x \in {m[1] : m \in ms} : \A y \in {m[1] : m \in ms} : y <= x
             j == CHOOSE x \in {m[2] : m \in {n \in ms : n[1] = k}} :
                      \A y \in {m[2] : m \in {n \in ms : n[1] = k}} : x <= y
         IN <<SubSeq(entry, k + 2, j - 1)>>

\* resolve_lookup("user_badges", name, lookup_map); <<>>: None
resolve_lookup(name) ==
    IF name \in DOMAIN user_badges_lookup THEN <<user_badges_lookup[name]>> ELSE <<>>

\* the transform of the user_badges entry:
\* {**resolve_lookup('user_badges', match.group(1), lookup_map), "timestamp": match.group(2)}
\* raises TypeError when the lookup returns None
transform_raises(group1) == resolve_lookup(group1) = <<>>

transform(group1) == Put(resolve_lookup(group1)[1], "timestamp", "t")

\* make_subdocuments(string, field_key, registry, separator) for a registry
\* holding the user_badges entry
make_subdocuments(string, field_key, sep) ==
    LET entries == entries_of(string, sep)
        matched == SelectSeq(entries, LAMBDA e : pattern_match(e) # <<>>)
        unmatched == SelectSeq(entries, LAMBDA e : pattern_match(e) = <<>>)
        \* the loop stops at the first entry whose transform raises
        raises == \E i \in 1..Len(matched) : transform_raises(pattern_match(matched[i])[1])
        stop == IF raises
                THEN CHOOSE i \in 1..Len(entries) :
                        /\ pattern_match(entries[i]) # <<>>
                        /\ transform_raises(pattern_match(entries[i])[1])
                        /\ \A j \in 1..(i - 1) :
                              pattern_match(entries[j]) # <<>> =>
                                  ~transform_raises(pattern_match(entries[j])[1])
                ELSE Len(entries) + 1
    IN IF string = <<>> \/ field_key # "user_badges"
       THEN [raised |-> FALSE, records |-> <<>>, warnings |-> <<>>]
       ELSE [raised |-> raises,
             records |-> IF raises THEN <<>>
                         ELSE [i \in 1..Len(matched) |-> transform(pattern_match(matched[i])[1])],
             warnings |-> SelectSeq(SubSeq(entries, 1, stop - 1),
                                    LAMBDA e : pattern_match(e) = <<>>)]

MakeSubdocuments ==
    /\ ms_result = <<>>
    /\ ms_result' = make_subdocuments(ms_string, ms_field_key, separator)
    /\ UNCHANGED <<ms_string, ms_field_key>>

NextSubdocuments ==
    \/ (\E c \in Alphabet : TypeChar(c) /\ Frame({"ms"}))
    \/ (MakeSubdocuments /\ Frame({"ms"}))

SpecSubdocuments == InitSubdocuments /\ [][NextSubdocuments]_vars

\* the non-empty trimmed tokens of the string that match the pattern, in input order
MatchingTokens ==
    SelectSeq(entries_of(ms_string, separator), LAMBDA e : Matches(e) # {})

\* C22: make_subdocuments for the user_badges entry does not raise and
\* returns one record per non-empty trimmed token matching the pattern, in
\* input order, with one warning per other token; an empty string or an
\* unknown field key gives the empty list.
C22_OneRecordPerMatchingToken ==
    ms_result # <<>> =>
        /\ ~ms_result.raised
        /\ IF ms_string = <<>> \/ ms_field_key = "unknown_field"
           THEN ms_result.records = <<>>
           ELSE /\ Len(ms_result.records) = Len(MatchingTokens)
                /\ Len(ms_result.warnings) = Len(entries_of(ms_string, separator)) - Len(MatchingTokens)

\* Non-matching tokens alone never make the call raise, and when the lookup
\* of every matching token resolves the list is as described.
NonMatchingTokensDropped ==
    (ms_result # <<>> /\ ms_field_key = "user_badges") =>
        /\ (\A i \in 1..Len(MatchingTokens) : ~transform_raises(pattern_match(MatchingTokens[i])[1]))
              => /\ ~ms_result.raised
                 /\ Len(ms_result.records) = Len(MatchingTokens)
                 /\ \A i \in 1..Len(MatchingTokens) :
                       Get(ms_result.records[i], "_id") = "bA"
        /\ ms_result.raised => MatchingTokens # <<>>

(***************************************************************************)
(* Staging -> main: src/utils/transform_for_main.py transform_collection   *)
(* over the delta file of one collection, then src/etl/load_mongo.py       *)
(* load_collection (load_file, upsert_collection) into the main store.     *)
(* The transform function keeps the fields _id, notes and rating of        *)
(* transform_user_reads.                                                   *)
(***************************************************************************)
MaxRecords == 2

MaxTransformRuns == 2

RecordIds == {"d1", "d2"}

\* the cells of a raw record; "missing": the key is not in the record
NotesCells == {"", "n1"}

RatingCells == {"", "4", "x", "missing"}

RawRecord(id, notes, rating) ==
    IF rating = "missing"
    THEN <<<<"_id", id>>, <<"notes", notes>>>>
    ELSE <<<<"_id", id>>, <<"notes", notes>>, <<"rating", rating>>>>

InitTransform ==
    /\ tm_pc = "stage" /\ tm_raw = <<>> /\ tm_output = <<>> /\ tm_main = {}
    /\ tm_errors = <<>> /\ tm_run = 1
    /\ IdleExcept({"tm"})

\* download_collections wrote one more changed record to the delta file
StageRecord(id, notes, rating) ==
    /\ tm_pc = "stage"
    /\ Len(tm_raw) < MaxRecords
    /\ \A i \in 1..Len(tm_raw) : Get(tm_raw[i], "_id") # id
    /\ tm_raw' = Append(tm_raw, RawRecord(id, notes, rating))
    /\ UNCHANGED <<tm_pc, tm_output, tm_main, tm_errors, tm_run>>

\* int(value): <<"TypeError">> for None, <<"ValueError">> for a string that is
\* not a number, else <<"int", the number>>
int(value) ==
    CASE value = "None" -> <<"TypeError">>
      [] value = "4" -> <<"int", "4">>
      [] OTHER -> <<"ValueError">>

\* "rating": None if doc.get("rating") == "" else int(doc.get("rating"))
rating_of(doc) ==
    IF GetOrNone(doc, "rating") = "" THEN <<"int", "None">> ELSE int(GetOrNone(doc, "rating"))

\* transform_func(doc, context=context) raises: <<>> when it returns, else
\* <<the exception>>
transform_func_raises(doc) ==
    IF rating_of(doc)[1] = "int" THEN <<>> ELSE <<rating_of(doc)[1]>>

\* transform_func(doc, context=context), where it returns
transform_func(doc) ==
    <<<<"_id", GetOrNone(doc, "_id")>>, <<"notes", GetOrNone(doc, "notes")>>,
      <<"rating", rating_of(doc)[2]>>>>

\* clean_document(doc)[0]: the keys whose value is None, '' or [] are dropped,
\* and so are the hash fields
clean_document(doc) ==
    SelectSeq(doc, LAMBDA p : p[2] # "None" /\ p[2] # "" /\ p[1] \notin {"full_hash", "id_hash"})

\* the body of the for loop over raw_docs: the list transformed
transformed_of(raw_docs) ==
    [i \in 1..Len(raw_docs) |-> safe_value(clean_document(transform_func(raw_docs[i])))]

\* transform_collection(collection_name, transform_func, context=context): the
\* try block spans the loop and the write, so the first record whose
\* transform raises ends the call before json.dump
TransformCollection ==
    /\ tm_pc = "stage"
    /\ tm_raw # <<>>
    /\ LET bad == {i \in 1..Len(tm_raw) : transform_func_raises(tm_raw[i]) # <<>>}
       IN IF bad = {}
          THEN /\ tm_output' = <<transformed_of(tm_raw)>>
               /\ UNCHANGED tm_errors
          ELSE LET first == CHOOSE i \in bad : \A j \in bad : i <= j
               IN /\ tm_errors' = Append(tm_errors, transform_func_raises(tm_raw[first])[1])
                  /\ UNCHANGED tm_output
    /\ tm_pc' = "transformed"
    /\ UNCHANGED <<tm_raw, tm_main, tm_run>>

\* self.timestamp of the run
RunStamp(run) == IF run = 1 THEN "r1" ELSE IF run = 2 THEN "r2" ELSE "r3"

\* load_file(file_path): the records of the file stamped with updated_at
load_file(records, run) ==
    [i \in 1..Len(records) |-> Put(records[i], "updated_at", RunStamp(run))]

\* UpdateOne({"_id": d["_id"]}, {"$set": d}, upsert=True) on the collection
update_one_set(coll, d) ==
    IF \E x \in coll : Get(x, "_id") = Get(d, "_id")
    THEN LET x == CHOOSE y \in coll : Get(y, "_id") = Get(d, "_id")
         IN (coll \ {x}) \cup {Merge(x, d)}
    ELSE coll \cup {d}

RECURSIVE bulk_write(_, _)
bulk_write(coll, docs) ==
    IF docs = <<>> THEN coll ELSE bulk_write(update_one_set(coll, docs[1]), Tail(docs))

\* load_collection(file_path) for the file of the collection, when it exists
LoadCollection ==
    /\ tm_pc = "transformed"
    /\ tm_main' = IF tm_output = <<>> THEN tm_main
                  ELSE bulk_write(tm_main, load_file(tm_output[1], tm_run))
    /\ tm_pc' = "loaded"
    /\ UNCHANGED <<tm_raw, tm_output, tm_errors, tm_run>>

\* The next run of the pipeline starts with an empty delta file.
NextTransformRun ==
    /\ tm_pc = "loaded"
    /\ tm_run < MaxTransformRuns
    /\ tm_run' = tm_run + 1
    /\ tm_raw' = <<>>
    /\ tm_pc' = "stage"
    /\ UNCHANGED <<tm_output, tm_main, tm_errors>>

NextTransform ==
    \/ (\E id \in RecordIds, n \in NotesCells, r \in RatingCells :
            StageRecord(id, n, r) /\ Frame({"tm"}))
    \/ (TransformCollection /\ Frame({"tm"}))
    \/ (LoadCollection /\ Frame({"tm"}))
    \/ (NextTransformRun /\ Frame({"tm"}))

SpecTransform == InitTransform /\ [][NextTransform]_vars

\* the records of the delta file whose transform does not fail, in file order
WellFormed(raw_docs) == SelectSeq(raw_docs, LAMBDA d : transform_func_raises(d) = <<>>)

\* C23: after transform_collection ran over the delta file of the run, the
\* output file holds the transform of every record whose transform does not
\* fail.
C23_BadRecordSkipped ==
    (tm_pc = "transformed" /\ WellFormed(tm_raw) # <<>>) =>
        /\ tm_output # <<>>
        /\ tm_output[1] = transformed_of(WellFormed(tm_raw))

\* the document of the main store with this _id, <<>> when there is none
MainDoc(id) ==
    IF \E x \in tm_main : Get(x, "_id") = id
    THEN CHOOSE x \in tm_main : Get(x, "_id") = id
    ELSE <<>>

\* C28: after the transform and the load of a run whose records all
\* transform, a record of the delta file whose notes cell is empty has no notes
\* value left in the main store.
C28_EmptiedFieldRemoved ==
    (tm_pc = "loaded" /\ WellFormed(tm_raw) = tm_raw) =>
        \A i \in 1..Len(tm_raw) :
            Get(tm_raw[i], "notes") = "" => ~Has(MainDoc(Get(tm_raw[i], "_id")), "notes")

(***************************************************************************)
(* The retry-decorated units: SheetSyncPipeline.sync_sheet                 *)
(* (src/etl/extract_gsheet.py lines 126-209) and                           *)
(* LoadMongoPipeline.upsert_collection (src/etl/load_mongo.py lines        *)
(* 97-140), each called through the wrapper of retry(max_attempts=3,       *)
(* backoff=2), once per name by sync_group and load_all.  One action is    *)
(* one step of the method body: a call the method makes, with what that    *)
(* call does.                                                              *)
(***************************************************************************)
Units == {"sync_sheet", "upsert_collection"}

\* @retry(max_attempts=3, backoff=2)
unit_max_attempts == 3

\* the argument of sync_group: one call of the unit per name
sheet_names == <<"genres", "books">>

InitUnit ==
    /\ sh_unit \in Units
    /\ sh_pc = "call" /\ sh_attempt = 1 /\ sh_invocations = <<0>>
    /\ sh_success = FALSE /\ sh_exc = <<>> /\ sh_faults = <<>> /\ sh_logs = <<>>
    /\ sh_log_faults = 0 /\ sh_call = 1 /\ sh_trace = <<>>
    /\ IdleExcept({"sh"})

\* what a step of the method body leaves alone
unit_frame == <<sh_unit, sh_attempt, sh_invocations, sh_logs, sh_log_faults, sh_call>>

\* the step returns and the method goes on to pc
Moves(step, pc, success) ==
    /\ sh_trace' = Append(sh_trace, step)
    /\ sh_pc' = pc
    /\ sh_success' = success
    /\ UNCHANGED <<sh_exc, sh_faults>>

\* the step raises an exception of class cls
Raises(step, cls) ==
    /\ sh_trace' = Append(sh_trace, step)
    /\ sh_faults' = Append(sh_faults, [call |-> sh_call, invocation |-> sh_invocations[sh_call],
                                       step |-> step, cls |-> cls])
    /\ sh_exc' = <<cls>>
    /\ sh_pc' = "except"
    /\ UNCHANGED sh_success

\* result = func(*args, **kwargs) in the wrapper's while loop
InvokeUnit ==
    /\ sh_pc = "call"
    /\ sh_invocations' = [sh_invocations EXCEPT ![sh_call] = @ + 1]
    /\ sh_success' = FALSE
    /\ sh_exc' = <<>>
    /\ sh_trace' = <<>>
    /\ sh_pc' = IF sh_unit = "sync_sheet" THEN "load_sheet" ELSE "bulk_write"
    /\ UNCHANGED <<sh_unit, sh_attempt, sh_faults, sh_logs, sh_log_faults, sh_call>>

\* new_list = self.load_sheet(name); add_hashes; if not new_list: return stats
LoadSheet(outcome) ==
    /\ sh_pc = "load_sheet"
    /\ CASE outcome = "records" -> Moves("load_sheet", "fetch_docs", FALSE)
         [] outcome = "empty" -> Moves("load_sheet", "finally", FALSE)
         [] outcome = "APIError" -> Raises("load_sheet", "APIError")
         [] OTHER -> Raises("add_hashes", "KeyError")
    /\ UNCHANGED unit_frame

\* old_list = self.fetch_docs(name) and the two tests on it
FetchDocs(outcome) ==
    /\ sh_pc = "fetch_docs"
    /\ CASE outcome = "none" -> Moves("fetch_docs", "apply_upserts", FALSE)
         [] outcome = "unchanged" -> Moves("fetch_docs", "finally", TRUE)
         [] outcome = "changed" -> Moves("fetch_docs", "apply_deletions", FALSE)
         [] OTHER -> Raises("fetch_docs", "PyMongoError")
    /\ UNCHANGED unit_frame

\* find_deltas; self.apply_deletions(name, diff["deleted"]): archive_delete
\* returns a dict for every exception of its body
ApplyDeletions ==
    /\ sh_pc = "apply_deletions"
    /\ Moves("apply_deletions", "apply_upserts", FALSE)
    /\ UNCHANGED unit_frame

\* self.apply_upserts(...); success = True; return stats
ApplyUpserts(outcome) ==
    /\ sh_pc = "apply_upserts"
    /\ CASE outcome = "ok" -> Moves("apply_upserts", "finally", TRUE)
         [] outcome = "ValueError" -> Raises("apply_upserts", "ValueError")
         [] OTHER -> Raises("apply_upserts", "PyMongoError")
    /\ UNCHANGED unit_frame

\* upsert_collection: result = self.db[name].bulk_write(ops, ordered=False);
\* success = True; return stats
BulkWrite(outcome) ==
    /\ sh_pc = "bulk_write"
    /\ CASE outcome = "ok" -> Moves("bulk_write", "finally", TRUE)
         [] outcome = "KeyError" -> Raises("bulk_write", "KeyError")
         [] OTHER -> Raises("bulk_write", "PyMongoError")
    /\ UNCHANGED unit_frame

\* the classes the except clauses of the method catch: KeyError, ValueError
\* (TypeError, BulkWriteError in upsert_collection) by name, and every other
\* class raised through "except Exception"
ExceptClauses == {"KeyError", "ValueError", "PyMongoError", "APIError"}

\* metadata_db["logs"].insert_one(log_doc) inside try / except PyMongoError
insert_log(type, written) ==
    IF written
    THEN /\ sh_logs' = Append(sh_logs, [type |-> type, sheet |-> sheet_names[sh_call]])
         /\ UNCHANGED sh_log_faults
    ELSE /\ sh_log_faults' = sh_log_faults + 1
         /\ UNCHANGED sh_logs

\* except ... as exc: logger.error; self.log_error(name, exc); return stats.
\* An exception no clause catches leaves the method after the finally block.
Except(written) ==
    /\ sh_pc = "except"
    /\ IF sh_exc[1] \in ExceptClauses
       THEN /\ insert_log("error", written)
            /\ sh_exc' = <<>>
       ELSE /\ written
            /\ UNCHANGED <<sh_logs, sh_log_faults, sh_exc>>
    /\ sh_pc' = "finally"
    /\ sh_trace' = Append(sh_trace, "except")
    /\ UNCHANGED <<sh_unit, sh_attempt, sh_invocations, sh_success, sh_faults, sh_call>>

\* finally: ...; if success: self.log_event(log_type="upsert", ...)
Finally(written) ==
    /\ sh_pc = "finally"
    /\ IF sh_success
       THEN insert_log("upsert", written)
       ELSE written /\ UNCHANGED <<sh_logs, sh_log_faults>>
    /\ sh_pc' = "wrapper"
    /\ sh_trace' = Append(sh_trace, "finally")
    /\ UNCHANGED <<sh_unit, sh_attempt, sh_invocations, sh_success, sh_exc, sh_faults, sh_call>>

\* the wrapper after the invocation: return result, or the except clause for
\* RETRYABLE_ERRORS of the exception that left the method
Wrapper ==
    /\ sh_pc = "wrapper"
    /\ IF sh_exc = <<>>
       THEN sh_pc' = "returned" /\ UNCHANGED sh_attempt
       ELSE IF sh_exc[1] \in {"PyMongoError", "APIError"} /\ sh_attempt < unit_max_attempts
       THEN sh_pc' = "call" /\ sh_attempt' = sh_attempt + 1
       ELSE sh_pc' = "raised" /\ UNCHANGED sh_attempt
    /\ UNCHANGED <<sh_unit, sh_invocations, sh_success, sh_exc, sh_faults, sh_logs,
                   sh_log_faults, sh_call, sh_trace>>

\* sync_group (workers = 1) and load_all go on to the next name
NextCall ==
    /\ sh_pc = "returned"
    /\ sh_call < Len(sheet_names)
    /\ sh_call' = sh_call + 1
    /\ sh_invocations' = Append(sh_invocations, 0)
    /\ sh_attempt' = 1
    /\ sh_pc' = "call"
    /\ sh_trace' = <<>>
    /\ UNCHANGED <<sh_unit, sh_success, sh_exc, sh_faults, sh_logs, sh_log_faults>>

NextUnit ==
    \/ (InvokeUnit /\ Frame({"sh"}))
    \/ (\E o \in {"records", "empty", "APIError", "KeyError"} : LoadSheet(o) /\ Frame({"sh"}))
    \/ (\E o \in {"none", "unchanged", "changed", "PyMongoError"} : FetchDocs(o) /\ Frame({"sh"}))
    \/ (ApplyDeletions /\ Frame({"sh"}))
    \/ (\E o \in {"ok", "ValueError", "PyMongoError"} : ApplyUpserts(o) /\ Frame({"sh"}))
    \/ (\E o \in {"ok", "KeyError", "PyMongoError"} : BulkWrite(o) /\ Frame({"sh"}))
    \/ (\E written \in BOOLEAN : Except(written) /\ Frame({"sh"}))
    \/ (\E written \in BOOLEAN : Finally(written) /\ Frame({"sh"}))
    \/ (Wrapper /\ Frame({"sh"}))
    \/ (NextCall /\ Frame({"sh"}))

SpecUnit == InitUnit /\ [][NextUnit]_vars

\* the calls of the unit that are over
FinishedCalls ==
    {c \in 1..sh_call : c < sh_call \/ sh_pc \in {"returned", "raised"}}

\* C24: when a call of sync_sheet is over and no write to the logs
\* collection failed, the logs collection holds a summary event ("upsert")
\* for the sheet of the call.
C24_SummaryAlwaysWritten ==
    (sh_unit = "sync_sheet" /\ sh_log_faults = 0) =>
        \A c \in FinishedCalls :
            \E i \in 1..Len(sh_logs) :
                sh_logs[i].type = "upsert" /\ sh_logs[i].sheet = sheet_names[c]

\* C26: when the call of a unit is over, a retryable fault (PyMongoError,
\* APIError) raised inside its invocation k < 3 was followed by another
\* invocation of the unit.
C26_RetryableFaultRetried ==
    \A i \in 1..Len(sh_faults) :
        (/\ sh_faults[i].call \in FinishedCalls
         /\ sh_faults[i].cls \in {"PyMongoError", "APIError"}
         /\ sh_faults[i].invocation < unit_max_attempts)
        => sh_invocations[sh_faults[i].call] > sh_faults[i].invocation

(***************************************************************************)
(* sync_sheet run again on the same sheet: src/etl/extract_gsheet.py       *)
(* sync_sheet lines 126-177 over the staging collection (source), the      *)
(* tombstones (deletions) and the rows of the sheet (sheet), with          *)
(* add_hashes, find_deltas, archive_delete and upsert_documents.           *)
(***************************************************************************)
MaxSyncs == 2

\* the order in which find() returns the documents: by insertion, the stored
\* ones before the minted ones
IdOrder == OldIds \o MintedIds \o <<"s1">>

\* fetch_documents(self.db[name]): the documents of the collection as a list
fetch_docs(coll) ==
    LET present == SelectSeq(IdOrder, LAMBDA id : \E d \in coll : Get(d, "_id") = id)
    IN [i \in 1..Len(present) |-> CHOOSE d \in coll : Get(d, "_id") = present[i]]

\* the _id of a document the run mints: the k-th ObjectId() of the run comes
\* after the minted ObjectIds of the earlier runs
Remint(doc, k, minted) ==
    IF Get(doc, "_id") = ObjectId(k) THEN Put(doc, "_id", ObjectId(minted + k)) ELSE doc

\* id_docs(new_list): a document keeps its _id or gets ObjectId()
id_docs(documents, minted) ==
    [i \in 1..Len(documents) |->
        IF Has(documents[i], "_id") THEN documents[i]
        ELSE Merge(<< <<"_id", ObjectId(minted + i)>> >>, documents[i])]

\* upsert_documents(db, name, docs, timestamp): updated_at is set and each
\* document is written with UpdateOne({"_id": ...}, {"$set": ...}, upsert=True)
RECURSIVE upsert_documents(_, _, _)
upsert_documents(coll, docs, ts) ==
    IF docs = <<>> THEN coll
    ELSE upsert_documents(update_one_set(coll, Put(docs[1], "updated_at", ts)), Tail(docs), ts)

\* apply_deletions(name, removed): archive_delete for each entry, in order
RECURSIVE apply_deletions(_, _, _)
apply_deletions(coll, dels, removed) ==
    IF removed = <<>> THEN [source |-> coll, deletions |-> dels]
    ELSE LET r == archive_delete(coll, dels, collection_name, Get(removed[1], "_id"),
                                 Len(dels) + 1, "none")
         IN apply_deletions(r.source, r.deletions, Tail(removed))

\* what a run did: the branch of sync_sheet it took, the documents it handed
\* to apply_upserts and the entries it handed to apply_deletions
Run(branch, upserted, removed) == [branch |-> branch, upserted |-> upserted, removed |-> removed]

\* sync_sheet(name) with no fault of the sheet or the store: the collection,
\* the tombstones and the record of the run it leaves
sync_sheet(coll, dels, rows, minted, ts) ==
    LET new_list == add_hashes(rows, id_map_genres)
        old_list == fetch_docs(coll)
        new_fh == {Get(new_list[i], "full_hash") : i \in 1..Len(new_list)}
        old_fh == {Get(old_list[i], "full_hash") : i \in
                    {j \in 1..Len(old_list) : Has(old_list[j], "full_hash")}}
        r == find_deltas(old_list, new_list)
        n_updated == Len(r.diff.updated)
        to_write == [k \in 1..Len(r.to_upsert) |->
                        IF k > n_updated THEN Remint(r.to_upsert[k], k - n_updated, minted)
                                         ELSE r.to_upsert[k]]
        after == apply_deletions(coll, dels, r.diff.deleted)
    IN IF new_list = <<>>
       THEN [source |-> coll, deletions |-> dels, run |-> Run("no records", <<>>, <<>>)]
       ELSE IF old_list = <<>>
       THEN [source |-> upsert_documents(coll, id_docs(new_list, minted), ts),
             deletions |-> dels,
             run |-> Run("saved as new", id_docs(new_list, minted), <<>>)]
       ELSE IF Len(new_list) = Len(old_list) /\ new_fh = old_fh
       THEN [source |-> coll, deletions |-> dels, run |-> Run("unchanged", <<>>, <<>>)]
       ELSE [source |-> upsert_documents(after.source, to_write, ts),
             deletions |-> after.deletions,
             run |-> Run("deltas", to_write, r.diff.deleted)]

\* the rows of a sheet with the columns name and note
SheetRows == { << <<"name", n>>, <<"note", t>> >> : n \in Names, t \in Notes }

InitResync ==
    /\ source = {} /\ deletions = <<>> /\ ad_pc = "off" /\ ad_query = "none"
    /\ ad_doc = <<>> /\ ad_original_id = "none" /\ ad_result = <<>>
    /\ ad_faults = {} /\ ad_calls = 0
    /\ fd_pc = "input" /\ id_fields = id_map_genres /\ sheet = <<>>
    /\ old_documents = <<>> /\ new_documents = <<>> /\ to_upsert = <<>> /\ diff = NoDiff
    /\ rs_runs = <<>> /\ rs_minted = 0
    /\ IdleExcept({"ad", "fd", "rs"})

resync_locals == <<ad_pc, ad_query, ad_doc, ad_original_id, ad_result, ad_faults, ad_calls,
                   fd_pc, id_fields, old_documents, new_documents, to_upsert, diff>>

\* Before the first run: one more document is in the stored snapshot.
StoreSnapshotDoc(n, t) ==
    /\ rs_runs = <<>>
    /\ sheet = <<>>
    /\ Cardinality(source) < MaxOld
    /\ source' = source \cup {StoredDoc(Cardinality(source) + 1, n, t)}
    /\ UNCHANGED <<deletions, sheet, rs_runs, rs_minted>>

\* Before the first run: one more row is in the sheet.
SheetRow(r) ==
    /\ rs_runs = <<>>
    /\ Len(sheet) < MaxNew
    /\ sheet' = Append(sheet, r)
    /\ UNCHANGED <<source, deletions, rs_runs, rs_minted>>

\* a run of sync_sheet on the sheet as it is
SyncSheet ==
    /\ Len(rs_runs) < MaxSyncs
    /\ rs_minted + Len(sheet) <= Len(MintedIds)
    /\ Len(deletions) + Cardinality(source) <= Len(MintedIds)
    /\ LET r == sync_sheet(source, deletions, sheet, rs_minted, Clock[Len(rs_runs) + 1])
       IN /\ source' = r.source
          /\ deletions' = r.deletions
          /\ rs_runs' = Append(rs_runs, r.run)
          /\ rs_minted' = rs_minted + Len(r.run.upserted)
    /\ UNCHANGED sheet

NextResync ==
    \/ (\E n \in Names, t \in Notes : StoreSnapshotDoc(n, t) /\ UNCHANGED resync_locals
            /\ Frame({"ad", "fd", "rs"}))
    \/ (\E r \in SheetRows : SheetRow(r) /\ UNCHANGED resync_locals /\ Frame({"ad", "fd", "rs"}))
    \/ (SyncSheet /\ UNCHANGED resync_locals /\ Frame({"ad", "fd", "rs"}))

SpecResync == InitResync /\ [][NextResync]_vars

\* C27: a run of sync_sheet that follows a run which applied the deltas of
\* the same sheet content hands nothing to apply_upserts and nothing to
\* apply_deletions, and leaves the tombstones as they were.
C27_SecondSyncIsNoOp ==
    \A k \in 2..Len(rs_runs) :
        rs_runs[k - 1].branch \in {"deltas", "saved as new"} =>
            /\ rs_runs[k].upserted = <<>>
            /\ rs_runs[k].removed = <<>>

(***************************************************************************)
(* The workers of sync_group: src/etl/extract_gsheet.py                    *)
(*                                                                         *)
(* sync_group hands sync_sheet to a thread pool (workers > 1) or calls it  *)
(* for one sheet after the other.  A worker is modelled store call by      *)
(* store call; the steps of the workers of a pool interleave freely.  The  *)
(* workers share the database handle, and with it db["deletions"], and     *)
(* the generator of ObjectIds.  No call of the sheet or the store raises.  *)
(***************************************************************************)
\* the sheets handed to sync_group; id_map gives both the identity field name
group_sheets == << "genres", "creator_roles" >>

GroupNames == {group_sheets[i] : i \in 1..Len(group_sheets)}

\* self.id_map[name]
id_map(name) == << "name" >>

\* self.timestamp, set once by __init__
timestamp == Clock[1]

\* self.db[name]: the collection a worker reads and writes
db_name_shared(name) == group_sheets[1]

db_name(name) == name

\* the stored snapshots and the sheets a collection of the group starts with
GroupSnapshots ==
    { {}, {StoredDoc(1, "a", "x")}, {StoredDoc(1, "a", "x"), StoredDoc(2, "b", "x")} }

GroupSheetContents ==
    { <<>>,
      << << <<"name", "a">>, <<"note", "x">> >> >>,
      << << <<"name", "a">>, <<"note", "y">> >> >>,
      << << <<"name", "b">>, <<"note", "y">> >> >>,
      << << <<"name", "b">>, <<"note", "x">> >>, << <<"name", "a">>, <<"note", "x">> >> >> }

\* the locals of a worker
Worker(pc, new_list, removed, upserts, doc) ==
    [pc |-> pc, new_list |-> new_list, removed |-> removed, upserts |-> upserts, doc |-> doc]

InitGroup ==
    /\ sg_workers \in {1, 2}
    /\ sg_sheets \in [GroupNames -> GroupSheetContents]
    /\ sg_db0 \in [GroupNames -> GroupSnapshots]
    /\ sg_db = sg_db0
    /\ sg_deletions = <<>>
    /\ sg_w = [n \in GroupNames |-> Worker("start", <<>>, <<>>, <<>>, <<>>)]
    /\ sg_minted = 0
    /\ IdleExcept({"sg"})

\* pool.map starts every worker at once; the loop calls sync_sheet for a
\* sheet when the calls for the sheets before it have returned
Scheduled(i) ==
    sg_workers > 1 \/ \A j \in 1..(i - 1) : sg_w[group_sheets[j]].pc = "done"

\* new_list = self.load_sheet(name); add_hashes; if not new_list: return
LoadSheetOf(i) ==
    LET n == group_sheets[i]
        new_list == add_hashes(sg_sheets[n], id_map(n))
    IN /\ Scheduled(i)
       /\ sg_w[n].pc = "start"
       /\ sg_w' = [sg_w EXCEPT ![n] =
                     Worker(IF new_list = <<>> THEN "done" ELSE "fetch", new_list,
                            <<>>, <<>>, <<>>)]
       /\ UNCHANGED <<sg_workers, sg_sheets, sg_db0, sg_db, sg_deletions, sg_minted>>

\* old_list = self.fetch_docs(name), and what the worker computes from it
\* without a store call: the branch, id_docs or find_deltas
FetchDocsOf(i) ==
    LET n == group_sheets[i]
        new_list == sg_w[n].new_list
        old_list == fetch_docs(sg_db[db_name(n)])
        new_fh == {Get(new_list[k], "full_hash") : k \in 1..Len(new_list)}
        old_fh == {Get(old_list[k], "full_hash") : k \in
                    {j \in 1..Len(old_list) : Has(old_list[j], "full_hash")}}
        r == find_deltas(old_list, new_list)
        n_updated == Len(r.diff.updated)
        to_write == [k \in 1..Len(r.to_upsert) |->
                        IF k > n_updated
                        THEN Remint(r.to_upsert[k], k - n_updated, sg_minted)
                        ELSE r.to_upsert[k]]
        next == IF old_list = <<>>
                THEN Worker("upsert", new_list, <<>>, id_docs(new_list, sg_minted), <<>>)
                ELSE IF Len(new_list) = Len(old_list) /\ new_fh = old_fh
                THEN Worker("done", new_list, <<>>, <<>>, <<>>)
                ELSE Worker("archive", new_list, r.diff.deleted, to_write, <<>>)
    IN /\ Scheduled(i)
       /\ sg_w[n].pc = "fetch"
       /\ sg_w' = [sg_w EXCEPT ![n] = next]
       /\ sg_minted' = sg_minted + Len(next.upserts)
       /\ UNCHANGED <<sg_workers, sg_sheets, sg_db0, sg_db, sg_deletions>>

\* apply_deletions: the next entry, archive_delete up to doc.pop("_id"); or
\* the end of the loop
FindOneOf(i) ==
    LET n == group_sheets[i]
        w == sg_w[n]
        found == find_one(sg_db[db_name(n)], Get(w.removed[1], "_id"))
    IN /\ Scheduled(i)
       /\ w.pc = "archive"
       /\ sg_w' = [sg_w EXCEPT ![n] =
                     IF w.removed = <<>>
                     THEN Worker("upsert", w.new_list, <<>>, w.upserts, <<>>)
                     ELSE IF found = {}
                     THEN Worker("archive", w.new_list, Tail(w.removed), w.upserts, <<>>)
                     ELSE Worker("insert", w.new_list, w.removed, w.upserts,
                                 Without(CHOOSE d \in found : TRUE, {"_id"}))]
       /\ UNCHANGED <<sg_workers, sg_sheets, sg_db0, sg_db, sg_deletions, sg_minted>>

\* archive_delete from deletions.insert_one on: the tombstone is inserted and
\* source.delete_one({"_id": doc["original_id"]}) raises KeyError unless the
\* document has a field original_id
InsertTombstoneOf(i) ==
    LET n == group_sheets[i]
        w == sg_w[n]
        k == Len(sg_deletions) + 1
        archived == Put(archived_doc(w.doc, Get(w.removed[1], "_id"), k),
                        "original_collection", n)
    IN /\ Scheduled(i)
       /\ w.pc = "insert"
       /\ sg_deletions' = Append(sg_deletions, archived)
       /\ sg_db' = IF Has(w.doc, "original_id")
                   THEN [sg_db EXCEPT ![db_name(n)] =
                            @ \ find_one(@, Get(w.doc, "original_id"))]
                   ELSE sg_db
       /\ sg_w' = [sg_w EXCEPT ![n] =
                     Worker("archive", w.new_list, Tail(w.removed), w.upserts, <<>>)]
       /\ UNCHANGED <<sg_workers, sg_sheets, sg_db0, sg_minted>>

\* apply_upserts(name, to_upsert) and the return of sync_sheet
ApplyUpsertsOf(i) ==
    LET n == group_sheets[i]
        w == sg_w[n]
    IN /\ Scheduled(i)
       /\ w.pc = "upsert"
       /\ sg_db' = [sg_db EXCEPT ![db_name(n)] = upsert_documents(@, w.upserts, timestamp)]
       /\ sg_w' = [sg_w EXCEPT ![n] = Worker("done", w.new_list, <<>>, w.upserts, <<>>)]
       /\ UNCHANGED <<sg_workers, sg_sheets, sg_db0, sg_deletions, sg_minted>>

NextGroup ==
    \/ (\E i \in 1..Len(group_sheets) : LoadSheetOf(i) /\ Frame({"sg"}))
    \/ (\E i \in 1..Len(group_sheets) : FetchDocsOf(i) /\ Frame({"sg"}))
    \/ (\E i \in 1..Len(group_sheets) : FindOneOf(i) /\ Frame({"sg"}))
    \/ (\E i \in 1..Len(group_sheets) : InsertTombstoneOf(i) /\ Frame({"sg"}))
    \/ (\E i \in 1..Len(group_sheets) : ApplyUpsertsOf(i) /\ Frame({"sg"}))

SpecGroup == InitGroup /\ [][NextGroup]_vars

\* what syncing the sheets one after another leaves: sync_sheet for the i-th
\* sheet of the group, after the calls for the sheets before it
RECURSIVE MintedBefore(_)
MintedBefore(i) ==
    IF i = 1 THEN 0
    ELSE MintedBefore(i - 1) + Len(add_hashes(sg_sheets[group_sheets[i - 1]],
                                              id_map(group_sheets[i - 1])))

SequentialRun(i) ==
    sync_sheet(sg_db0[group_sheets[i]], <<>>, sg_sheets[group_sheets[i]],
               MintedBefore(i), timestamp)

\* the tombstones the sequential runs leave, each under its collection's name
SequentialDeletions ==
    UNION { {Put(SequentialRun(i).deletions[k], "original_collection", group_sheets[i]) :
                k \in 1..Len(SequentialRun(i).deletions)} : i \in 1..Len(group_sheets) }

\* a collection up to the values of the ObjectIds minted by the run
SameUpToMinted(coll) ==
    {IF \E k \in 1..Len(MintedIds) : Get(d, "_id") = MintedIds[k]
     THEN Put(d, "_id", "minted") ELSE d : d \in coll}

\* the tombstones up to their minted _id, their time and their order
SameUpToOrder(dels) ==
    {Without(dels[k], {"_id", "deleted_at"}) : k \in 1..Len(dels)}

SameUpToSet(dels) == {Without(t, {"_id", "deleted_at"}) : t \in dels}

AllReturned == \A n \in GroupNames : sg_w[n].pc = "done"

\* C25: when every worker of sync_group has returned, in whatever order
\* their store calls interleaved, every collection of the group and the
\* deletions collection hold what syncing the sheets one after another
\* leaves (up to the values of the minted ObjectIds and the tombstones' times).
C25_InterleavingEqualsSequential ==
    AllReturned =>
        /\ \A i \in 1..Len(group_sheets) :
              SameUpToMinted(sg_db[group_sheets[i]]) = SameUpToMinted(SequentialRun(i).source)
        /\ SameUpToOrder(sg_deletions) = SameUpToSet(SequentialDeletions)

\* C25 witness: a pool's workers have returned after interleaved store
\* calls: both collections were changed and the tombstone of the second
\* sheet was inserted before that of the first.
C25_Witness ==
    /\ AllReturned
    /\ sg_workers > 1
    /\ \A n \in GroupNames : sg_db[n] # sg_db0[n]
    /\ Len(sg_deletions) = 2
    /\ Get(sg_deletions[1], "original_collection") = group_sheets[2]
    /\ Get(sg_deletions[2], "original_collection") = group_sheets[1]

(***************************************************************************)
(* Book awards: src/utils/transform_for_aura.py process_books,             *)
(* src/etl/load_aura.py load_relationships and src/utils/ops_aura.py       *)
(* book_awards_relationships.  The graph is that of the relationship       *)
(* model; a HAS_AWARD edge is <<book id, "HAS_AWARD", award id>>.          *)
(***************************************************************************)
AwardIds == {"a1", "a2"}

\* the awards lists of a book's record: lists of the awards' _id
AwardLists == { <<>>, <<"a1">>, <<"a2">>, <<"a1", "a2">>, <<"a2", "a2">> }

\* a book of the main store: its _id and its awards list
Book(id, awards) == [id |-> id, awards |-> awards]

\* the updated books of a run: data["books"]
BookBatches ==
    {<<>>}
    \cup { <<Book(b, l)>> : b \in {"b1", "b2"}, l \in AwardLists }
    \cup { <<Book("b1", l1), Book("b2", l2)>> : l1 \in AwardLists, l2 \in AwardLists }

InitBookAwards ==
    /\ g_nodes = {} /\ g_edges = EmptyBag /\ g_last = Op("none", <<>>, {}) /\ g_since = "none"
    /\ IdleExcept({"g"})

\* process_books: the rows of book_awards, one per award of each book
RECURSIVE process_books(_)
process_books(books) ==
    IF books = <<>> THEN <<>>
    ELSE [k \in 1..Len(books[1].awards) |->
            [book_id |-> books[1].id, award_id |-> books[1].awards[k]]]
         \o process_books(Tail(books))

\* load_nodes: MERGE of the Book nodes of the batch and of the Award nodes
LoadNodes(books) ==
    /\ g_last.op # "load_nodes"
    /\ g_nodes' = g_nodes \cup {Node("Book", books[i].id, "", <<>>) : i \in 1..Len(books)}
                          \cup {Node("Award", a, "", <<>>) : a \in AwardIds}
    /\ g_last' = Op("load_nodes", books, {})
    /\ UNCHANGED <<g_edges, g_since>>

\* book_awards_relationships(tx, updated_books, award_rows)
book_awards_relationships(nodes, edges, updated_books, award_rows) ==
    LET updated_book_ids == {updated_books[i].id : i \in 1..Len(updated_books)}
        \* MATCH (b:Book) WHERE b._id IN $ids OPTIONAL MATCH (b)-[r:HAS_AWARD]->() DELETE r
        pruned == BagWithout(edges, {e \in BagToSet(edges) :
                                        /\ e[2] = "HAS_AWARD"
                                        /\ e[1] \in updated_book_ids
                                        /\ Node("Book", e[1], "", <<>>) \in nodes})
        \* MATCH (b:Book {_id: row.book_id}) MATCH (a:Award {_id: row.award_id}) MERGE
        rows == { <<award_rows[k].book_id, "HAS_AWARD", award_rows[k].award_id>> :
                    k \in { j \in 1..Len(award_rows) :
                              /\ Node("Book", award_rows[j].book_id, "", <<>>) \in nodes
                              /\ Node("Award", award_rows[j].award_id, "", <<>>) \in nodes } }
    IN IF updated_books = <<>> THEN edges
       ELSE IF award_rows = <<>> THEN pruned
       ELSE merge(pruned, SetToBag(rows))

\* load_relationships(data), the statement for the book awards:
\* if data.get("book_awards", None): execute_write(book_awards_relationships, ...)
LoadRelationships ==
    /\ g_last.op = "load_nodes"
    /\ LET books == g_last.args
           book_awards == process_books(books)
       IN /\ g_edges' = IF book_awards # <<>>
                        THEN book_awards_relationships(g_nodes, g_edges, books, book_awards)
                        ELSE g_edges
          /\ g_last' = Op("load_relationships", books, BagToSet(g_edges) \ BagToSet(g_edges'))
    /\ UNCHANGED <<g_nodes, g_since>>

NextBookAwards ==
    \/ (\E books \in BookBatches : LoadNodes(books) /\ Frame({"g"}))
    \/ (LoadRelationships /\ Frame({"g"}))

SpecBookAwards == InitBookAwards /\ [][NextBookAwards]_vars

\* C29: after load_relationships processed a batch, the HAS_AWARD edges that
\* leave a book of the batch are one edge to each award of the book's
\* awards list, and none when the list is empty.
C29_AwardEdgesMatchRecord ==
    g_last.op = "load_relationships" =>
        \A i \in 1..Len(g_last.args) :
            LET book == g_last.args[i]
            IN OutEdges(book.id, "HAS_AWARD") =
                 SetToBag({ <<book.id, "HAS_AWARD", book.awards[k]>> : k \in 1..Len(book.awards) })

(***************************************************************************)
(* Promoted business keys: src/utils/transform_for_main.py                 *)
(* transform_formats, and the replay of the staging deletions into the     *)
(* main store by src/utils/ops_mongo.py sync_deletions.  since precedes    *)
(* every tombstone; no store call raises.                                  *)
(***************************************************************************)
\* the rows of the formats sheet: format_id and name
FormatIds == << "fm1", "fm2" >>

\* the document the sheet sync keeps in staging for the k-th format
StagingFormat(k, n) ==
    << <<"_id", StagingIds[k]>>, <<"format_id", FormatIds[k]>>, <<"name", n>> >>

InitPromoted ==
    /\ pk_staging = {} /\ pk_staging_deletions = <<>> /\ pk_main = {}
    /\ pk_main_deletions = <<>> /\ pk_last = [op |-> "none", synced |-> 0]
    /\ IdleExcept({"pk"})

\* the sheet sync upserts the k-th format into staging
UpsertFormat(k, n) ==
    /\ pk_staging' = update_one_set(pk_staging, StagingFormat(k, n))
    /\ pk_last' = [op |-> "upsert", synced |-> 0]
    /\ UNCHANGED <<pk_staging_deletions, pk_main, pk_main_deletions>>

\* transform_formats(doc)
transform_formats(doc) ==
    << <<"_id", GetOrNone(doc, "format_id")>>, <<"name", GetOrNone(doc, "name")>> >>

\* download_collections: the documents of staging_db["formats"] as a list
download_collection(coll) ==
    LET present == SelectSeq(StagingIds, LAMBDA id : \E d \in coll : Get(d, "_id") = id)
    IN [i \in 1..Len(present) |-> CHOOSE d \in coll : Get(d, "_id") = present[i]]

\* the formats of staging are transformed and loaded into the main store
TransformAndLoad ==
    /\ LET docs == download_collection(pk_staging)
       IN pk_main' = bulk_write(pk_main, [i \in 1..Len(docs) |-> transform_formats(docs[i])])
    /\ pk_last' = [op |-> "load", synced |-> 0]
    /\ UNCHANGED <<pk_staging, pk_staging_deletions, pk_main_deletions>>

\* archive_delete(db, name, {"_id": id}) on the collection coll = db[name]
archive_delete_in(coll, dels, name, id) ==
    LET r == archive_delete(coll, dels, collection_name, id, Len(dels) + 1, "none")
    IN [r EXCEPT !.deletions =
            [i \in 1..Len(@) |->
                IF i > Len(dels) THEN Put(@[i], "original_collection", name) ELSE @[i]]]

\* the row of the k-th format left the sheet: the sheet sync calls
\* archive_delete(staging_db, "formats", {"_id": entry["_id"]})
ArchiveFormat(k) ==
    /\ Len(pk_staging_deletions) < MaxTombstones
    /\ \E d \in pk_staging : Get(d, "_id") = StagingIds[k]
    /\ LET r == archive_delete_in(pk_staging, pk_staging_deletions, "formats", StagingIds[k])
       IN /\ pk_staging' = r.source
          /\ pk_staging_deletions' = r.deletions
    /\ pk_last' = [op |-> "archive", synced |-> 0]
    /\ UNCHANGED <<pk_main, pk_main_deletions>>

\* sync_deletions(main_db, staging_db, since): the loop over the tombstones
RECURSIVE sync_deletions(_, _, _, _)
sync_deletions(coll, dels, fetched, synced_count) ==
    IF fetched = <<>> THEN [main |-> coll, deletions |-> dels, synced |-> synced_count]
    ELSE IF Malformed(fetched[1]) THEN sync_deletions(coll, dels, Tail(fetched), synced_count)
    ELSE LET r == archive_delete_in(coll, dels, Get(fetched[1], "original_collection"),
                                    Get(fetched[1], "original_id"))
         IN sync_deletions(r.source, r.deletions, Tail(fetched),
                           IF r.result.deleted THEN synced_count + 1 ELSE synced_count)

SyncDeletions ==
    /\ Len(pk_main_deletions) + Len(pk_staging_deletions) <= Len(MintedIds)
    /\ LET r == sync_deletions(pk_main, pk_main_deletions, pk_staging_deletions, 0)
       IN /\ pk_main' = r.main
          /\ pk_main_deletions' = r.deletions
          /\ pk_last' = [op |-> "sync_deletions", synced |-> r.synced]
    /\ UNCHANGED <<pk_staging, pk_staging_deletions>>

NextPromoted ==
    \/ (\E k \in 1..Len(FormatIds), n \in Names : UpsertFormat(k, n) /\ Frame({"pk"}))
    \/ (TransformAndLoad /\ Frame({"pk"}))
    \/ (\E k \in 1..Len(FormatIds) : ArchiveFormat(k) /\ Frame({"pk"}))
    \/ (SyncDeletions /\ Frame({"pk"}))

SpecPromoted == InitPromoted /\ [][NextPromoted]_vars

\* C30: after sync_deletions processed the tombstones of staging, the main
\* store holds no document for a format that has a tombstone: none whose
\* _id is the format_id of the archived staging document.
C30_PromotedKeyDeletionPropagated ==
    pk_last.op = "sync_deletions" =>
        \A i \in 1..Len(pk_staging_deletions) :
            ~\E d \in pk_main : Get(d, "_id") = Get(pk_staging_deletions[i], "format_id")

====
